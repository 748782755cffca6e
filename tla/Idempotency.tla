---------------------------- MODULE Idempotency ----------------------------
(***************************************************************************)
(* How the backend answers a request that carries an Idempotency-Key.      *)
(*                                                                         *)
(* IdempotencyInterceptor looks the key up, lets the handler run and       *)
(* commit on its own, and stores the answer afterwards, so the three are   *)
(* separate steps.  POST /reservations keeps its key in the transaction    *)
(* that creates the reservation.  POST /inventory-transfers goes through   *)
(* the interceptor and has a unique key of its own.  POST .../submit goes  *)
(* through the interceptor and refuses what is submitted already.          *)
(***************************************************************************)
EXTENDS Naturals, Sequences

CONSTANTS Keys,      \* method, path and Idempotency-Key of a request
          Bodies,    \* what a request asks for
          Calls,     \* requests in flight at the same time
          Kind,      \* how the end point of each key guards itself
          MaxLog,    \* bound on the effects committed
          None

Kinds == {"open", "interceptor", "reservation", "transfer", "submit"}

ASSUME KindAssumption == Kind \in [Keys -> Kinds]
ASSUME LogAssumption == MaxLog \in Nat

VARIABLES stored,  \* idempotency_keys: the entity answered for a key, or 0
          log,     \* effects in the order they were committed
          at,      \* how far each call has come
          request, \* what each call asks
          waited,  \* whether its client still waits for the answer
          answer   \* what the handler or the interceptor said

vars == <<stored, log, at, request, waited, answer>>

\* Every client that reserves sends its key; a client may omit it elsewhere.
Requests == {q \in [key : Keys, body : Bodies, keyed : BOOLEAN] :
               Kind[q.key] \in {"reservation", "transfer", "submit"} => q.keyed}
NoRequest == [key |-> None, body |-> None, keyed |-> FALSE]
Ok(n) == [status |-> "ok", entity |-> n]
Refused == [status |-> "refused", entity |-> 0] \* a client error, 4xx
Failed == [status |-> "failed", entity |-> 0]   \* no answer, or 5xx
NoAnswer == [status |-> "none", entity |-> 0]

TypeOK ==
    /\ stored \in [Keys -> 0 .. MaxLog]
    /\ log \in Seq([key : Keys, body : Bodies]) /\ Len(log) <= MaxLog
    /\ at \in [Calls -> {"idle", "sent", "running", "executed", "answered"}]
    /\ request \in [Calls -> Requests \cup {NoRequest}]
    /\ waited \in [Calls -> BOOLEAN]
    /\ answer \in [Calls -> [status : {"ok", "refused", "failed", "none"}, entity : 0 .. MaxLog]]
    /\ \A c \in Calls : at[c] = "idle" => request[c] = NoRequest /\ ~waited[c]

Init ==
    /\ stored = [k \in Keys |-> 0]
    /\ log = <<>>
    /\ at = [c \in Calls |-> "idle"]
    /\ request = [c \in Calls |-> NoRequest]
    /\ waited = [c \in Calls |-> FALSE]
    /\ answer = [c \in Calls |-> NoAnswer]

Intercepted(q) == q.keyed /\ Kind[q.key] \in {"interceptor", "transfer", "submit"}
Applied(k) == {n \in DOMAIN log : log[n].key = k}

-----------------------------------------------------------------------------
(* The client's side of a call.                                            *)

Release(c) ==
    /\ at' = [at EXCEPT ![c] = "idle"]
    /\ request' = [request EXCEPT ![c] = NoRequest]
    /\ waited' = [waited EXCEPT ![c] = FALSE]
    /\ answer' = [answer EXCEPT ![c] = NoAnswer]

Send(c, q) ==
    /\ at[c] = "idle"
    /\ at' = [at EXCEPT ![c] = "sent"]
    /\ request' = [request EXCEPT ![c] = q]
    /\ waited' = [waited EXCEPT ![c] = TRUE]
    /\ UNCHANGED <<stored, log, answer>>

Hear(c) == at[c] = "answered" /\ Release(c) /\ UNCHANGED <<stored, log>>

\* A timeout or a lost connection: the server goes on without its client.
GiveUp(c) ==
    /\ at[c] # "idle" /\ waited[c]
    /\ IF at[c] = "answered"
       THEN Release(c)
       ELSE waited' = [waited EXCEPT ![c] = FALSE] /\ UNCHANGED <<at, request, answer>>
    /\ UNCHANGED <<stored, log>>

-----------------------------------------------------------------------------
(* The server's side.                                                      *)

\* An answer nobody waits for is dropped.
Reply(c, a) ==
    IF waited[c]
    THEN /\ at' = [at EXCEPT ![c] = "answered"]
         /\ answer' = [answer EXCEPT ![c] = a]
         /\ UNCHANGED <<request, waited>>
    ELSE Release(c)

Proceed(c, stage, a) ==
    /\ at' = [at EXCEPT ![c] = stage]
    /\ answer' = [answer EXCEPT ![c] = a]
    /\ UNCHANGED <<request, waited>>

\* What a handler returns goes to the client, through the interceptor if the
\* call is intercepted.
Return(c, n) == IF Intercepted(request[c]) THEN Proceed(c, "executed", Ok(n)) ELSE Reply(c, Ok(n))

Lookup(c) ==
    /\ at[c] = "sent"
    /\ LET k == request[c].key IN
       IF Intercepted(request[c]) /\ stored[k] # 0
       THEN Reply(c, Ok(stored[k]))
       ELSE Proceed(c, "running", NoAnswer)
    /\ UNCHANGED <<stored, log>>

\* A handler that creates or changes something, with no guard of its own.
Create(c) ==
    /\ Len(log) < MaxLog
    /\ log' = Append(log, [key |-> request[c].key, body |-> request[c].body])
    /\ Return(c, Len(log) + 1)

ExecuteOpen(c) ==
    /\ at[c] = "running"
    /\ Kind[request[c].key] \in {"open", "interceptor"}
    /\ Create(c)
    /\ UNCHANGED stored
\* Mutant of ExecuteReservation: the body is not compared.
Unhashed(c) ==
    /\ at[c] = "running" /\ Kind[request[c].key] = "reservation"
    /\ LET k == request[c].key IN
       IF stored[k] # 0
       THEN Reply(c, Ok(stored[k])) /\ UNCHANGED <<stored, log>>
       ELSE Create(c) /\ stored' = [stored EXCEPT ![k] = Len(log) + 1]
\* Mutant of ExecuteReservation: the key is kept, and never looked up.
Rebook(c) ==
    /\ at[c] = "running" /\ Kind[request[c].key] = "reservation"
    /\ Create(c)
    /\ stored' = [stored EXCEPT ![request[c].key] = Len(log) + 1]

\* One transaction under an advisory lock on the key.
ExecuteReservation(c) ==
    /\ at[c] = "running" /\ Kind[request[c].key] = "reservation"
    /\ LET k == request[c].key IN
       IF stored[k] # 0
       THEN /\ Reply(c, IF log[stored[k]].body = request[c].body THEN Ok(stored[k]) ELSE Refused)
            /\ UNCHANGED <<stored, log>>
       ELSE /\ Create(c)
            /\ stored' = [stored EXCEPT ![k] = Len(log) + 1]

\* The row's unique key admits one transfer; another body for it is refused.
ExecuteTransfer(c) ==
    /\ at[c] = "running" /\ Kind[request[c].key] = "transfer"
    /\ LET made == Applied(request[c].key) IN
       IF made = {}
       THEN Create(c)
       ELSE /\ \E n \in made : IF log[n].body = request[c].body THEN Return(c, n) ELSE Reply(c, Refused)
            /\ UNCHANGED log
    /\ UNCHANGED stored

\* A transfer already submitted is refused, or, when two submissions overlap,
\* its row is written the same way once more.
ExecuteSubmit(c) ==
    /\ at[c] = "running" /\ Kind[request[c].key] = "submit"
    /\ LET made == Applied(request[c].key) IN
       IF made = {}
       THEN Create(c)
       ELSE /\ Reply(c, Refused) \/ \E n \in made : Return(c, n)
            /\ UNCHANGED log
    /\ UNCHANGED stored

\* Validation, permissions, a business rule.
Refuse(c) ==
    /\ at[c] = "running"
    /\ Reply(c, Refused)
    /\ UNCHANGED <<stored, log>>
\* Mutant of Record: the loser of the race answers with its own entity.
OwnAnswer(c) ==
    /\ at[c] = "executed"
    /\ LET k == request[c].key IN
       stored' = IF stored[k] = 0 THEN [stored EXCEPT ![k] = answer[c].entity] ELSE stored
    /\ Reply(c, answer[c])
    /\ UNCHANGED log

\* A concurrent call that stored the key first (P2002) decides the answer.
Record(c) ==
    /\ at[c] = "executed"
    /\ LET k == request[c].key IN
       IF stored[k] = 0
       THEN /\ stored' = [stored EXCEPT ![k] = answer[c].entity]
            /\ Reply(c, answer[c])
       ELSE Reply(c, Ok(stored[k])) /\ UNCHANGED stored
    /\ UNCHANGED log

\* The server stops, or fails, between any two of these steps.
Crash(c) ==
    /\ at[c] \in {"sent", "running", "executed"}
    /\ Reply(c, Failed)
    /\ UNCHANGED <<stored, log>>

Execute(c) == ExecuteOpen(c) \/ ExecuteReservation(c) \/ ExecuteTransfer(c) \/ ExecuteSubmit(c)
Serve(c) == Lookup(c) \/ Execute(c) \/ Refuse(c) \/ Record(c)

Next == \E c \in Calls :
    \/ \E q \in Requests : Send(c, q)
    \/ Hear(c) \/ GiveUp(c)
    \/ Serve(c) \/ Crash(c)

Spec == Init /\ [][Next]_vars

-----------------------------------------------------------------------------
(* Properties.                                                             *)

\* Everyone who is told "done" under one key is told of the same entity, the
\* one kept for later, whatever raced, failed or was retried.
AnswersAgree == \A c \in Calls :
    LET q == request[c] IN
    at[c] = "answered" /\ answer[c].status = "ok" /\ q.keyed /\ Kind[q.key] # "open"
       => answer[c].entity = stored[q.key]

\* The keys kept with what they guard are idempotent as a client means it: see
\* ExactlyOnce.
Strict == {k \in Keys : Kind[k] = "reservation"}
Held ==
    [k \in Strict |->
        IF Applied(k) = {} THEN None
        ELSE IF \E n \in DOMAIN log : Applied(k) = {n}
        THEN log[CHOOSE n \in DOMAIN log : Applied(k) = {n}].body
        ELSE "twice"]
Told ==
    [c \in Calls |->
        IF at[c] = "answered" /\ answer[c].status = "ok" /\ request[c].key \in Strict
        THEN <<request[c].key, request[c].body>> ELSE None]
Once == INSTANCE ExactlyOnce WITH Keys <- Strict, Clients <- Calls, done <- Held, told <- Told
ImplementsOnce == Once!Spec
=============================================================================
