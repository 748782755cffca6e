---------------------------- MODULE OfflineQueue ----------------------------
(***************************************************************************)
(* The phone's offline work: the screens that start operations, the tables *)
(* mutation_queue and offline_requests in SQLite, and the two loops that   *)
(* send the queue: the foreground one (sync-context.tsx) and the one of    *)
(* the background task (sync-operations.ts), which share no lock.  The     *)
(* backend is Idempotency.                                                 *)
(*                                                                         *)
(* Every statement on SQLite is awaited, so each is a step of its own.     *)
(***************************************************************************)
EXTENDS Idempotency, FiniteSets

CONSTANTS Forms,    \* operations written as drafts: inventory transfers
          Posts,    \* sent at once, queued when nothing answers: promises, followups
          Bookings, \* the same with a key kept from the first attempt: reservations
          Loops,    \* {"foreground", "background"}, or one of them
          MaxRow,   \* bound on the rows ever queued
          MaxFaults \* bound on crashes, timeouts and lost answers

Ops == Forms \cup Posts \cup Bookings

\* The end points behind the operations; a transfer is created, then submitted.
CreateKey(o) == <<o, "create">>
SubmitKey(o) == <<o, "submit">>

ASSUME OpsAssumption ==
    /\ Forms \cap Posts = {} /\ Bookings \cap (Forms \cup Posts) = {}
    /\ Loops \subseteq {"foreground", "background"}
    /\ Ops \X {"create", "submit"} \subseteq Keys
    /\ \A o \in Ops : Kind[CreateKey(o)] = CASE o \in Forms -> "transfer"
                                             [] o \in Posts -> "interceptor"
                                             [] OTHER -> "reservation"
    /\ \A o \in Ops : Kind[SubmitKey(o)] = "submit"

VARIABLES row,    \* mutation_queue by operationId; id 0 where there is none
          nextId, \* AUTOINCREMENT
          label,  \* offline_requests.status, "none" where there is no row
          wanted, \* what the user last typed for each operation
          typing, \* submitOfflineDraft between its two statements
          run,    \* what each loop, and the open screen, is doing
          faults  \* crashes, timeouts and lost answers so far

phone == <<row, nextId, label, wanted, typing, run>>
queueVars == <<vars, phone, faults>>

NoRow == [id |-> 0, status |-> "pending", body |-> None, due |-> TRUE]
NewRow(b) == [id |-> nextId, status |-> "pending", body |-> b, due |-> TRUE]
Queued(o) == row[o].id # 0
Screen == "screen"
Idle == [at |-> "idle", todo |-> {}, job |-> None, made |-> 0, call |-> None]

QueueInit ==
    /\ Init
    /\ row = [o \in Ops |-> NoRow] /\ nextId = 1
    /\ label = [o \in Ops |-> "none"]
    /\ wanted = [o \in Ops |-> None]
    /\ typing = {}
    /\ run = [w \in Loops \cup {Screen} |-> Idle]
    /\ faults = 0

-----------------------------------------------------------------------------
(* Calls, faults, and what an answer leads to.                             *)
Step(w, stage) == run' = [run EXCEPT ![w].at = stage, ![w].call = None, ![w].made = 0]

Post(w, key, body, keyed, stage) == \E c \in Calls :
    /\ Send(c, [key |-> key, body |-> body, keyed |-> keyed])
    /\ run' = [run EXCEPT ![w].at = stage, ![w].call = c, ![w].made = 0]

Fault == faults < MaxFaults /\ faults' = faults + 1
Sound == UNCHANGED faults

\* The answer of w's call arrives; next says what each outcome leads to.
Answered(w, next(_)) ==
    /\ run[w].call # None /\ Hear(run[w].call) /\ Sound
    /\ LET a == answer[run[w].call] IN
       run' = [run EXCEPT ![w].at = next(a.status), ![w].call = None, ![w].made = a.entity]

TimesOut(w, stage) == run[w].call # None /\ Fault /\ GiveUp(run[w].call) /\ Step(w, stage)

ServerStep == (\E c \in Calls : Serve(c)) /\ Sound /\ UNCHANGED phone
ServerFault == (\E c \in Calls : Crash(c)) /\ Fault /\ UNCHANGED phone

\* The app is stopped; SQLite keeps its tables, the server its calls.
Kill ==
    /\ Fault
    /\ \E w \in DOMAIN run : run[w] # Idle \/ typing # {}
    /\ run' = [w \in DOMAIN run |-> Idle] /\ typing' = {}
    /\ waited' = [c \in Calls |-> FALSE]
    /\ LET over == {c \in Calls : at[c] = "answered"} IN
       /\ at' = [c \in Calls |-> IF c \in over THEN "idle" ELSE at[c]]
       /\ request' = [c \in Calls |-> IF c \in over THEN NoRequest ELSE request[c]]
       /\ answer' = [c \in Calls |-> IF c \in over THEN NoAnswer ELSE answer[c]]
    /\ UNCHANGED <<stored, log, row, nextId, label, wanted>>

-----------------------------------------------------------------------------
(* A loop over the queue.  It works on the rows it read at its start.      *)

Begin(w) ==
    /\ run[w].at = "idle"
    /\ LET ready == {o \in Ops : Queued(o) /\ row[o].status = "pending" /\ row[o].due} IN
       /\ ready # {}
       /\ run' = [run EXCEPT ![w].at = "next",
                    ![w].todo = {[id |-> row[o].id, op |-> o, body |-> row[o].body] : o \in ready}]
    /\ UNCHANGED <<vars, row, nextId, label, wanted, typing>> /\ Sound
\* Mutant of Done: syncingRef is not reset.
StillSyncing(w) ==
    /\ run[w].at = "next" /\ run[w].todo = {}
    /\ run' = [run EXCEPT ![w] = [Idle EXCEPT !.at = "syncing"]]
    /\ UNCHANGED <<vars, row, nextId, label, wanted, typing>> /\ Sound

Done(w) ==
    /\ run[w].at = "next" /\ run[w].todo = {}
    /\ run' = [run EXCEPT ![w] = Idle]
    /\ UNCHANGED <<vars, row, nextId, label, wanted, typing>> /\ Sound

Take(w) ==
    /\ run[w].at = "next"
    /\ \E j \in run[w].todo, c \in Calls :
       /\ \A i \in run[w].todo : j.id <= i.id
       /\ Send(c, [key |-> CreateKey(j.op), body |-> j.body, keyed |-> TRUE])
       /\ run' = [run EXCEPT ![w].at = "create", ![w].job = j, ![w].call = c,
                             ![w].todo = @ \ {j}]
    /\ UNCHANGED <<row, nextId, label, wanted, typing>> /\ Sound

\* 2xx, a client error, and what retryableStatus covers.
Outcome(w, success, s) == CASE s = "ok" -> success [] s = "refused" -> "refuse" [] OTHER -> "retry"
\* Mutant of AfterCreate: a transfer is done when its draft is created.
Unsubmitted(w) == "accept"

AfterCreate(w) == IF run[w].job.op \in Forms THEN "check" ELSE "accept"

Created(w) ==
    /\ run[w].at = "create"
    /\ LET next(s) == Outcome(w, AfterCreate(w), s) IN Answered(w, next)
    /\ UNCHANGED <<row, nextId, label, wanted, typing>>

\* The dry run of a transfer changes nothing but its own report.
Check(w) ==
    /\ run[w].at = "check"
    /\ \/ /\ Post(w, SubmitKey(run[w].job.op), log[run[w].made].body, TRUE, "submit") /\ Sound
       \/ Step(w, "refuse") /\ UNCHANGED vars /\ Sound
       \/ Step(w, "retry") /\ UNCHANGED vars /\ Fault
    /\ UNCHANGED <<row, nextId, label, wanted, typing>>

Submitted(w) ==
    /\ run[w].at = "submit"
    /\ LET next(s) == Outcome(w, "accept", s) IN Answered(w, next)
    /\ UNCHANGED <<row, nextId, label, wanted, typing>>

Lost(w) ==
    /\ run[w].at \in {"create", "submit"}
    /\ TimesOut(w, "retry")
    /\ UNCHANGED <<row, nextId, label, wanted, typing>>

\* markOfflineRequestResult updates the row there is, if any.
Mark(w, l) == LET o == run[w].job.op IN
    label' = IF label[o] = "none" THEN label ELSE [label EXCEPT ![o] = l]
\* The queue's statements name the row by the id it was read with.
Write(w, r) == LET o == run[w].job.op IN
    row' = IF row[o].id = run[w].job.id THEN [row EXCEPT ![o] = r] ELSE row

MarkSynced(w) == run[w].at = "accept" /\ Mark(w, "synced") /\ Step(w, "remove") /\ UNCHANGED row
Remove(w) == run[w].at = "remove" /\ Write(w, NoRow) /\ Step(w, "next") /\ UNCHANGED label
\* Mutant of Block: a refused operation is dropped.
Drop(w) == run[w].at = "refuse" /\ Write(w, NoRow) /\ Step(w, "refused") /\ UNCHANGED label

Block(w) ==
    /\ run[w].at = "refuse"
    /\ Write(w, [row[run[w].job.op] EXCEPT !.status = "blocked", !.due = TRUE])
    /\ Step(w, "refused") /\ UNCHANGED label
MarkBlocked(w) == run[w].at = "refused" /\ Mark(w, "blocked") /\ Step(w, "next") /\ UNCHANGED row

Backoff(w) ==
    /\ run[w].at = "retry"
    /\ Write(w, [row[run[w].job.op] EXCEPT !.due = FALSE])
    /\ Step(w, "retried") /\ UNCHANGED label
MarkPending(w) == run[w].at = "retried" /\ Mark(w, "pending") /\ Step(w, "next") /\ UNCHANGED row

Settle(w) ==
    /\ MarkSynced(w) \/ Remove(w) \/ Block(w) \/ MarkBlocked(w) \/ Backoff(w) \/ MarkPending(w)
    /\ UNCHANGED <<vars, nextId, wanted, typing>> /\ Sound

Loop(w) == Begin(w) \/ Done(w) \/ Take(w) \/ Created(w) \/ Check(w) \/ Submitted(w) \/ Settle(w)

\* nextRetryAt passes, or the user asks to retry now.
Due(o) ==
    /\ Queued(o) /\ ~row[o].due /\ row' = [row EXCEPT ![o].due = TRUE]
    /\ UNCHANGED <<vars, nextId, label, wanted, typing, run>> /\ Sound

-----------------------------------------------------------------------------
(* The screens.                                                            *)

\* Promises and followups are tried at once without a key, reservations with
\* the one they will be queued under.
TryOnline(o, b) ==
    /\ o \in Posts \cup Bookings /\ wanted[o] = None
    /\ run[Screen] = Idle
    /\ wanted' = [wanted EXCEPT ![o] = b]
    /\ \E c \in Calls :
       /\ Send(c, [key |-> CreateKey(o), body |-> b, keyed |-> o \in Bookings])
       /\ run' = [run EXCEPT ![Screen] = [Idle EXCEPT !.at = "online", !.job = o, !.call = c]]
    /\ UNCHANGED <<row, nextId, label, typing>> /\ Sound

\* An error that carries a response is shown; only silence is queued.
OnlineAnswered ==
    /\ run[Screen].at = "online"
    /\ \E silent \in {"offline", "shown"} :
       LET next(s) == IF s = "failed" THEN silent ELSE "shown" IN Answered(Screen, next)
    /\ UNCHANGED <<row, nextId, label, wanted, typing>>
OnlineLost ==
    /\ run[Screen].at = "online" /\ TimesOut(Screen, "offline")
    /\ UNCHANGED <<row, nextId, label, wanted, typing>>

Enqueue ==
    /\ run[Screen].at \in {"offline", "shown"}
    /\ run' = [run EXCEPT ![Screen] = Idle]
    /\ IF run[Screen].at = "offline"
       THEN LET o == run[Screen].job IN
            /\ nextId <= MaxRow /\ nextId' = nextId + 1
            /\ row' = [row EXCEPT ![o] = NewRow(wanted[o])]
       ELSE UNCHANGED <<row, nextId>>
    /\ UNCHANGED <<vars, label, wanted, typing>> /\ Sound

\* A form can be opened while it is new, a draft, or blocked.
Editable(o) == label[o] \in {"none", "draft", "blocked"} /\ o \notin typing

SaveDraft(o, b) ==
    /\ Editable(o)
    /\ label' = [label EXCEPT ![o] = "draft"] /\ wanted' = [wanted EXCEPT ![o] = b]
    /\ UNCHANGED <<vars, row, nextId, typing, run>> /\ Sound

RecordPending(o, b) ==
    /\ Editable(o)
    /\ label' = [label EXCEPT ![o] = "pending"] /\ wanted' = [wanted EXCEPT ![o] = b]
    /\ typing' = typing \cup {o}
    /\ UNCHANGED <<vars, row, nextId, run>> /\ Sound

\* resubmitMutation: the row it updates keeps its id.
Resubmit(o) ==
    /\ o \in typing /\ typing' = typing \ {o}
    /\ IF Queued(o)
       THEN row' = [row EXCEPT ![o] = [NewRow(wanted[o]) EXCEPT !.id = row[o].id]] /\ UNCHANGED nextId
       ELSE /\ nextId <= MaxRow /\ nextId' = nextId + 1
            /\ row' = [row EXCEPT ![o] = NewRow(wanted[o])]
    /\ UNCHANGED <<vars, label, wanted, run>> /\ Sound

DeleteDraft(o) ==
    /\ label[o] = "draft" /\ o \notin typing
    /\ label' = [label EXCEPT ![o] = "none"]
    /\ row' = IF row[o].status = "pending" THEN [row EXCEPT ![o] = NoRow] ELSE row
    /\ UNCHANGED <<vars, nextId, wanted, typing, run>> /\ Sound

Blocked == {o \in Ops : row[o].status = "blocked"}
RetryBlocked ==
    /\ Blocked # {}
    /\ row' = [o \in Ops |-> IF o \in Blocked THEN [row[o] EXCEPT !.status = "pending"] ELSE row[o]]
    /\ UNCHANGED <<vars, nextId, label, wanted, typing, run>> /\ Sound
DiscardBlocked ==
    /\ Blocked # {}
    /\ row' = [o \in Ops |-> IF o \in Blocked THEN NoRow ELSE row[o]]
    /\ UNCHANGED <<vars, nextId, label, wanted, typing, run>> /\ Sound

User ==
    \/ \E o \in Posts \cup Bookings, b \in Bodies : TryOnline(o, b)
    \/ \E o \in Forms, b \in Bodies : SaveDraft(o, b) \/ RecordPending(o, b)
    \/ \E o \in Forms : DeleteDraft(o)
    \/ RetryBlocked \/ DiscardBlocked
App ==
    \/ OnlineAnswered \/ Enqueue
    \/ \E o \in Forms : Resubmit(o)

QueueNext ==
    \/ \E w \in Loops : Loop(w) \/ Lost(w)
    \/ \E o \in Ops : Due(o)
    \/ User \/ App \/ OnlineLost
    \/ ServerStep \/ ServerFault \/ Kill

QueueSpec == QueueInit /\ [][QueueNext]_queueVars

-----------------------------------------------------------------------------
(* Properties.                                                             *)

\* What completes an operation on the server.
LastKey(o) == IF o \in Forms THEN SubmitKey(o) ELSE CreateKey(o)
Executed(o) == Applied(LastKey(o)) # {}

\* A queued operation is only forgotten once the server has done it: nothing a
\* crash, a lost answer or the other loop does loses it.  (The user may discard
\* blocked operations and delete drafts; a change of the signed-in user, which
\* empties the queue, is outside the module.)
NothingLost == [][\A o \in Ops :
    Queued(o) /\ row'[o].id = 0 /\ row[o].status = "pending" /\ label[o] # "draft"
       => Executed(o)]_queueVars

\* The request centre calls an operation synced only if the server has done it.
SyncedIsExecuted == \A o \in Ops : label[o] = "synced" => Executed(o)

\* A reservation is made once however its request was retried.
BookedOnce == \A o \in Bookings : Cardinality(Applied(CreateKey(o))) <= 1

\* Whatever waits in the queue is eventually sent or blocked, if the
\* foreground loop is run again and again, faults end and the server answers.
Fairness ==
    /\ WF_queueVars(Loop("foreground"))
    /\ \A o \in Ops : WF_queueVars(Due(o))
    /\ WF_queueVars(App)
    /\ \A c \in Calls : WF_queueVars(Serve(c) /\ Sound /\ UNCHANGED phone)
FairQueueSpec == QueueSpec /\ Fairness
QueueDrains == \A o \in Ops :
    Queued(o) /\ row[o].status = "pending" ~> ~Queued(o) \/ row[o].status = "blocked"

-----------------------------------------------------------------------------
(* What the documentation says, and the code does not do.                  *)

\* A promise made without a connection is not repeated by its
\* synchronization (docs/PROJECT_WORK_LOG.md:45).
PostedOnce == \A o \in Posts : Cardinality(Applied(CreateKey(o))) <= 1

\* What a corrected transfer now asks for is what is sent: a key already used
\* for another request is refused (inventory-transfers.service.ts:106).
CorrectionIsSent == [][\A o \in Forms :
    Queued(o) /\ row'[o].id = 0 /\ row[o].status = "pending" /\ label[o] # "draft"
       => \E n \in Applied(CreateKey(o)) : log[n].body = row[o].body]_queueVars
=============================================================================
