---------------------------- MODULE DraftGateway ----------------------------
(***************************************************************************)
(* The gateways that write drafts to Oracle.  A call carries an external   *)
(* reference.  Its writer locks the document's table, looks for a draft    *)
(* with that reference, takes the next number, inserts and commits; every  *)
(* error rolls back.  The answer may be lost after the commit, and the     *)
(* caller may have given up before it.                                     *)
(*                                                                         *)
(* Marked references (quotations, sales orders) are refused for another    *)
(* content; the others answer with what there is.                          *)
(***************************************************************************)
EXTENDS Naturals

CONSTANTS References, \* external references
          Bodies,     \* contents of documents
          Marked,     \* references whose draft remembers its content
          Tables,     \* Oracle's tables of drafts
          Table,      \* the table of each reference
          Jobs,       \* calls in progress at the gateway at the same time
          MaxNo,      \* bound on document numbers
          None

ASSUME GatewayAssumption ==
    Marked \subseteq References /\ Table \in [References -> Tables] /\ MaxNo \in Nat
ASSUME NoneAssumption == None \notin Jobs \cup References \cup Bodies

VARIABLES drafts, \* rows committed in Oracle
          lock,   \* the job that holds each table
          stage,  \* how far each job has come
          asks,   \* the reference and content it carries
          number, \* the number it has taken, or 0
          waits,  \* whether its caller still waits
          reply   \* the answer on its way to the caller

gateway == <<drafts, lock, stage, asks, number, waits, reply>>

Request == [ref : References, body : Bodies]
NoRequest == [ref |-> None, body |-> None]
Ok(n) == [status |-> "ok", no |-> n]
Failed == [status |-> "failed", no |-> 0] \* any 4xx or 5xx
NoReply == [status |-> "none", no |-> 0]

Holding == {"locked", "numbered"}
Stages == {"idle", "sent", "answered"} \cup Holding

GatewayTypeOK ==
    /\ drafts \subseteq [ref : References, body : Bodies, no : 1 .. MaxNo]
    /\ lock \in [Tables -> Jobs \cup {None}]
    /\ stage \in [Jobs -> Stages]
    /\ asks \in [Jobs -> Request \cup {NoRequest}]
    /\ \A j \in Jobs : stage[j] = "idle" <=> asks[j] = NoRequest
    /\ number \in [Jobs -> 0 .. MaxNo]
    /\ waits \in [Jobs -> BOOLEAN]
    /\ reply \in [Jobs -> [status : {"ok", "failed", "none"}, no : 0 .. MaxNo]]

GatewayInit ==
    /\ drafts = {}
    /\ lock = [t \in Tables |-> None]
    /\ stage = [j \in Jobs |-> "idle"]
    /\ asks = [j \in Jobs |-> NoRequest]
    /\ number = [j \in Jobs |-> 0]
    /\ waits = [j \in Jobs |-> FALSE]
    /\ reply = [j \in Jobs |-> NoReply]

Existing(r) == {d \in drafts : d.ref = r}
In(t) == {d \in drafts : Table[d.ref] = t}
TableOf(j) == Table[asks[j].ref]

-----------------------------------------------------------------------------
(* The caller's side.                                                      *)

Post(j, q) ==
    /\ stage[j] = "idle"
    /\ stage' = [stage EXCEPT ![j] = "sent"]
    /\ asks' = [asks EXCEPT ![j] = q]
    /\ waits' = [waits EXCEPT ![j] = TRUE]
    /\ UNCHANGED <<drafts, lock, number, reply>>
\* Mutant of Clear: the job's request is left in it.
LeaveRequest(j) ==
    /\ stage' = [stage EXCEPT ![j] = "idle"]
    /\ waits' = [waits EXCEPT ![j] = FALSE]
    /\ reply' = [reply EXCEPT ![j] = NoReply]
    /\ UNCHANGED asks

Clear(j) ==
    /\ stage' = [stage EXCEPT ![j] = "idle"]
    /\ asks' = [asks EXCEPT ![j] = NoRequest]
    /\ waits' = [waits EXCEPT ![j] = FALSE]
    /\ reply' = [reply EXCEPT ![j] = NoReply]

Hear(j) == stage[j] = "answered" /\ Clear(j) /\ UNCHANGED <<drafts, lock, number>>

\* AbortSignal.timeout, or a caller that stops: the gateway goes on.
GiveUp(j) ==
    /\ waits[j]
    /\ IF stage[j] = "answered"
       THEN Clear(j)
       ELSE waits' = [waits EXCEPT ![j] = FALSE] /\ UNCHANGED <<stage, asks, reply>>
    /\ UNCHANGED <<drafts, lock, number>>

-----------------------------------------------------------------------------
(* The writer's side.                                                      *)

Answer(j, a) ==
    IF waits[j]
    THEN /\ stage' = [stage EXCEPT ![j] = "answered"]
         /\ reply' = [reply EXCEPT ![j] = a]
         /\ UNCHANGED <<asks, waits>>
    ELSE Clear(j)

Proceed(j, s) == stage' = [stage EXCEPT ![j] = s] /\ UNCHANGED <<asks, waits, reply>>
\* Mutant of EndTransaction: nothing ends for a caller that has left.
EndForCaller(j) ==
    /\ lock' = [t \in Tables |-> IF lock[t] = j /\ waits[j] THEN None ELSE lock[t]]
    /\ number' = [number EXCEPT ![j] = 0]

\* Commit and rollback both free the table, if the job holds it.
EndTransaction(j) ==
    /\ lock' = [t \in Tables |-> IF lock[t] = j THEN None ELSE lock[t]]
    /\ number' = [number EXCEPT ![j] = 0]
\* Mutant of LockTable: the table is read without locking it.
ReadTable(j) ==
    /\ stage[j] = "sent"
    /\ Proceed(j, "locked")
    /\ UNCHANGED <<drafts, lock, number>>

\* LOCK TABLE ... IN EXCLUSIVE MODE NOWAIT; a table that is held fails the call.
LockTable(j) ==
    /\ stage[j] = "sent" /\ lock[TableOf(j)] = None
    /\ lock' = [lock EXCEPT ![TableOf(j)] = j]
    /\ Proceed(j, "locked")
    /\ UNCHANGED <<drafts, number>>
\* Mutant of Repeat: the marker is not compared.
RepeatAny(j) ==
    /\ stage[j] = "locked"
    /\ \E d \in Existing(asks[j].ref) : Answer(j, Ok(d.no))
    /\ EndTransaction(j)
    /\ UNCHANGED drafts

Repeat(j) ==
    /\ stage[j] = "locked"
    /\ \E d \in Existing(asks[j].ref) :
          Answer(j, IF d.ref \in Marked /\ d.body # asks[j].body THEN Failed ELSE Ok(d.no))
    /\ EndTransaction(j)
    /\ UNCHANGED drafts

\* NVL(MAX(no), 0) + 1 over the table.
IsNext(n, t) == (\A d \in In(t) : d.no < n) /\ (n = 1 \/ \E d \in In(t) : n = d.no + 1)
\* Mutant of TakeNumber: the reference is not looked up.
TakeAnother(j) ==
    /\ stage[j] = "locked"
    /\ \E n \in 1 .. MaxNo : IsNext(n, TableOf(j)) /\ number' = [number EXCEPT ![j] = n]
    /\ Proceed(j, "numbered")
    /\ UNCHANGED <<drafts, lock>>

TakeNumber(j) ==
    /\ stage[j] = "locked" /\ Existing(asks[j].ref) = {}
    /\ \E n \in 1 .. MaxNo : IsNext(n, TableOf(j)) /\ number' = [number EXCEPT ![j] = n]
    /\ Proceed(j, "numbered")
    /\ UNCHANGED <<drafts, lock>>

\* The inserts and the commit; an error after it reaches the caller as a failure.
Write(j) ==
    /\ stage[j] = "numbered"
    /\ drafts' = drafts \cup {[ref |-> asks[j].ref, body |-> asks[j].body, no |-> number[j]]}
    /\ Answer(j, Ok(number[j])) \/ Answer(j, Failed)
    /\ EndTransaction(j)

\* A table that is held, a validation, a timeout, a stopped gateway.
Fail(j) ==
    /\ stage[j] \in {"sent"} \cup Holding
    /\ Answer(j, Failed)
    /\ EndTransaction(j)
    /\ UNCHANGED drafts

Serve(j) == LockTable(j) \/ Repeat(j) \/ TakeNumber(j) \/ Write(j) \/ Fail(j)

GatewayNext == \E j \in Jobs :
    (\E q \in Request : Post(j, q)) \/ Hear(j) \/ GiveUp(j) \/ Serve(j)

GatewaySpec == GatewayInit /\ [][GatewayNext]_gateway

-----------------------------------------------------------------------------
(* Properties.                                                             *)

\* No two drafts of one table have the same number, and no reference has two
\* drafts, whatever overlaps, fails or is retried (createDraft of each writer).
NumbersDiffer ==
    \A d, e \in drafts : d.ref = e.ref \/ (Table[d.ref] = Table[e.ref] /\ d.no = e.no) => d = e

\* A table is only held by a job in its transaction, so that no error or lost
\* caller leaves it locked.
LockHeld == \A t \in Tables : lock[t] # None => stage[lock[t]] \in Holding /\ TableOf(lock[t]) = t

\* A marked reference is applied once, and its caller is told "ok" of its own
\* content only: see ExactlyOnce.
Drafted ==
    [r \in Marked |->
        IF Existing(r) = {} THEN None
        ELSE IF \E d \in drafts : Existing(r) = {d}
        THEN (CHOOSE d \in drafts : Existing(r) = {d}).body
        ELSE "twice"]
Confirmed ==
    [j \in Jobs |->
        IF stage[j] = "answered" /\ reply[j].status = "ok" /\ asks[j].ref \in Marked
        THEN <<asks[j].ref, asks[j].body>> ELSE None]
MarkedOnce == INSTANCE ExactlyOnce WITH Keys <- Marked, Clients <- Jobs, done <- Drafted, told <- Confirmed
ImplementsOnce == MarkedOnce!Spec
=============================================================================
