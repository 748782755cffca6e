------------------------- MODULE IdempotencyProofs -------------------------
(***************************************************************************)
(* Proofs about Idempotency: that all who are told "done" under one key    *)
(* hear of one entity, and that a key kept in the transaction it guards    *)
(* implements ExactlyOnce, for any sets of keys, bodies and calls.         *)
(***************************************************************************)
EXTENDS Idempotency, TLAPS

Answers == [status : {"ok", "refused", "failed", "none"}, entity : 0 .. MaxLog]
Stages == {"idle", "sent", "running", "executed", "answered"}

\* A call under way asks for something; one that ran behind the interceptor has an
\* entity to answer with; one told "done" was told of the entity kept for its key,
\* and, if the key is strict, of the entity it asked for.
CallOK(c) ==
    /\ at[c] # "idle" => request[c] \in Requests
    /\ at[c] = "executed" => Intercepted(request[c]) /\ answer[c].entity # 0
    /\ at[c] = "answered" /\ answer[c].status = "ok"
       /\ request[c].keyed /\ Kind[request[c].key] # "open" =>
          LET k == request[c].key IN
          /\ stored[k] # 0 /\ answer[c].entity = stored[k]
          /\ k \in Strict => stored[k] \in DOMAIN log /\ log[stored[k]].body = request[c].body

\* A strict key is kept exactly when it was applied, and names its only effect.
Kept == \A k \in Strict : Applied(k) = IF stored[k] = 0 THEN {} ELSE {stored[k]}

KeyInvariant == TypeOK /\ (\A c \in Calls : CallOK(c)) /\ Kept

-----------------------------------------------------------------------------
(* Frames.                                                                 *)

\* The other calls do not notice.
Alone(c) ==
    \A d \in Calls \ {c} : /\ at'[d] = at[d] /\ request'[d] = request[d]
                           /\ waited'[d] = waited[d] /\ answer'[d] = answer[d]

\* What was kept stays kept, what was done stays done.
Grows ==
    /\ \A k \in Keys : stored[k] # 0 => stored'[k] = stored[k]
    /\ \A n \in DOMAIN log : n \in DOMAIN log' /\ log'[n] = log[n]

CallsTyped ==
    /\ at \in [Calls -> Stages]
    /\ request \in [Calls -> Requests \cup {NoRequest}]
    /\ waited \in [Calls -> BOOLEAN]
    /\ answer \in [Calls -> Answers]
    /\ \A c \in Calls : at[c] = "idle" => request[c] = NoRequest /\ ~waited[c]

\* Whatever is in a sequence has its type.
LEMMA SequenceElement ==
    ASSUME NEW S, NEW seq \in Seq(S), NEW n \in DOMAIN seq
    PROVE  seq[n] \in S
OBVIOUS

\* TypeOK is about calls, keys and effects.
LEMMA TypeParts ==
    TypeOK <=> /\ CallsTyped /\ stored \in [Keys -> 0 .. MaxLog]
               /\ log \in Seq([key : Keys, body : Bodies]) /\ Len(log) <= MaxLog
BY DEF TypeOK, CallsTyped, Answers, Stages

\* A call that nobody touches stays sound while keys and effects only grow.
LEMMA CallFrame ==
    ASSUME TypeOK, Grows, NEW c \in Calls, NEW d \in Calls \ {c}, Alone(c), CallOK(d)
    PROVE  CallOK(d)'
BY DEF CallOK, Grows, Alone, Strict, Intercepted, Requests

\* Nothing written is a case of growing.
LEMMA NoGrowth == TypeOK /\ UNCHANGED <<stored, log>> => Grows
BY DEF Grows, TypeOK

\* Release empties the slot and touches no other.
LEMMA ReleaseEffect ==
    ASSUME CallsTyped, NEW c \in Calls, Release(c)
    PROVE  CallsTyped' /\ Alone(c) /\ at'[c] = "idle"
<1>1. /\ at' \in [Calls -> Stages] /\ waited' \in [Calls -> BOOLEAN]
      /\ request' \in [Calls -> Requests \cup {NoRequest}]
  BY DEF CallsTyped, Release, Stages
<1>2. NoAnswer \in Answers
  BY LogAssumption DEF NoAnswer, Answers
<1>3. answer' \in [Calls -> Answers]
  BY <1>2 DEF CallsTyped, Release
<1>4. Alone(c) /\ at'[c] = "idle"
  BY DEF CallsTyped, Release, Alone
<1>5. \A d \in Calls : at'[d] = "idle" => request'[d] = NoRequest /\ ~waited'[d]
  BY DEF CallsTyped, Release
<1> QED BY <1>1, <1>3, <1>4, <1>5 DEF CallsTyped, Requests

\* Proceed moves a call on and records what it would answer.
LEMMA ProceedEffect ==
    ASSUME CallsTyped, NEW c \in Calls, at[c] # "idle",
           NEW stage \in Stages \ {"idle"}, NEW a \in Answers, Proceed(c, stage, a)
    PROVE  /\ CallsTyped' /\ Alone(c)
           /\ at'[c] = stage /\ request'[c] = request[c] /\ answer'[c] = a
BY DEF CallsTyped, Proceed, Alone, Stages

\* Reply answers whoever waits, and drops the answer otherwise.
LEMMA ReplyEffect ==
    ASSUME CallsTyped, NEW c \in Calls, at[c] # "idle", NEW a \in Answers, Reply(c, a)
    PROVE  /\ CallsTyped' /\ Alone(c)
           /\ \/ at'[c] = "idle"
              \/ at'[c] = "answered" /\ request'[c] = request[c] /\ answer'[c] = a
<1>1. CASE waited[c]
  BY <1>1 DEF CallsTyped, Reply, Alone, Stages
<1>2. CASE ~ waited[c]
  <2>1. Release(c)
    BY <1>2 DEF Reply
  <2> QED BY <2>1, ReleaseEffect
<1> QED BY <1>1, <1>2

\* The answers there are.
LEMMA AnswerForms ==
    /\ Refused \in Answers /\ Failed \in Answers /\ NoAnswer \in Answers
    /\ \A n \in 0 .. MaxLog : Ok(n) \in Answers
BY LogAssumption DEF Refused, Failed, NoAnswer, Ok, Answers

-----------------------------------------------------------------------------
(* Steps that keep and do nothing.                                         *)

\* Steps that leave keys and effects alone keep the invariant if they keep it for
\* the call they move.
LEMMA QuietStep ==
    ASSUME KeyInvariant, UNCHANGED <<stored, log>>, CallsTyped',
           NEW c \in Calls, Alone(c), CallOK(c)'
    PROVE  KeyInvariant'
<1> USE DEF KeyInvariant
<1>1. TypeOK'
  BY DEF TypeOK, CallsTyped, Answers, Stages
<1>2. Kept'
  BY DEF Kept, Applied
<1>3. \A d \in Calls : CallOK(d)'
  BY CallFrame, NoGrowth
<1> QED BY <1>1, <1>2, <1>3

\* A quiet reply that is sound for its caller.
LEMMA QuietReply ==
    ASSUME KeyInvariant, UNCHANGED <<stored, log>>, NEW c \in Calls, at[c] # "idle",
           NEW a \in Answers, Reply(c, a),
           \/ a.status # "ok"
           \/ LET k == request[c].key IN
              /\ stored[k] # 0 /\ a.entity = stored[k]
              /\ k \in Strict => stored[k] \in DOMAIN log /\ log[stored[k]].body = request[c].body
    PROVE  KeyInvariant'
<1>1. CallsTyped' /\ Alone(c)
  BY ReplyEffect, TypeParts DEF KeyInvariant
<1>2. CallOK(c)'
  <2>1. CASE at'[c] = "idle"
    BY <2>1 DEF CallOK
  <2>2. CASE at'[c] = "answered" /\ request'[c] = request[c] /\ answer'[c] = a
    <3>1. request'[c] \in Requests
      BY <2>2 DEF KeyInvariant, CallOK
    <3> QED BY <2>2, <3>1 DEF CallOK, Strict
  <2> QED BY <2>1, <2>2, ReplyEffect, TypeParts DEF KeyInvariant
<1> QED BY <1>1, <1>2, QuietStep

\* A quiet move on to a stage before the answer.
LEMMA QuietProceed ==
    ASSUME KeyInvariant, UNCHANGED <<stored, log>>, NEW c \in Calls, at[c] # "idle",
           NEW stage \in {"sent", "running", "executed"}, NEW a \in Answers,
           Proceed(c, stage, a),
           stage = "executed" => Intercepted(request[c]) /\ a.entity # 0
    PROVE  KeyInvariant'
<1>1. /\ CallsTyped' /\ Alone(c)
      /\ at'[c] = stage /\ request'[c] = request[c] /\ answer'[c] = a
  BY ProceedEffect, TypeParts DEF KeyInvariant, Stages
<1>2. CallOK(c)'
  BY <1>1 DEF CallOK, KeyInvariant, Intercepted
<1> QED BY <1>1, <1>2, QuietStep

-----------------------------------------------------------------------------
(* Steps that do something.                                                *)

\* One more effect, for the request of c.
Appended(c) ==
    /\ Len(log) < MaxLog
    /\ log' = Append(log, [key |-> request[c].key, body |-> request[c].body])

\* The log is longer by that effect, and otherwise the same.
LEMMA AppendEffect ==
    ASSUME TypeOK, NEW c \in Calls, request[c] \in Requests, Appended(c)
    PROVE  /\ log' \in Seq([key : Keys, body : Bodies]) /\ Len(log') <= MaxLog
           /\ Len(log) + 1 \in (1 .. MaxLog) \cap DOMAIN log' /\ Len(log) + 1 \notin DOMAIN log
           /\ log'[Len(log) + 1].key = request[c].key /\ log'[Len(log) + 1].body = request[c].body
           /\ \A n \in DOMAIN log : n \in DOMAIN log' /\ log'[n] = log[n]
           /\ DOMAIN log' = DOMAIN log \cup {Len(log) + 1}
<1>1. [key |-> request[c].key, body |-> request[c].body] \in [key : Keys, body : Bodies]
  BY DEF Requests
<1> QED BY <1>1, LogAssumption DEF TypeOK, Appended

\* The keys whose effects grow by it.
LEMMA AppliedEffect ==
    ASSUME TypeOK, NEW c \in Calls, request[c] \in Requests, Appended(c), NEW k \in Keys
    PROVE  Applied(k)' = IF k = request[c].key THEN Applied(k) \cup {Len(log) + 1} ELSE Applied(k)
<1>1. \A n \in DOMAIN log : log'[n].key = log[n].key
  BY AppendEffect
<1>2. log'[Len(log) + 1].key = request[c].key
  BY AppendEffect
<1> QED BY <1>1, <1>2, AppendEffect DEF Applied

\* Creating behind the interceptor, or with a key that nobody keeps.
LEMMA CreateStep ==
    ASSUME KeyInvariant, NEW c \in Calls, at[c] = "running", Create(c), UNCHANGED stored,
           request[c].key \notin Strict
    PROVE  KeyInvariant'
<1> DEFINE n == Len(log) + 1
<1>1. request[c] \in Requests /\ Appended(c) /\ Return(c, n)
  BY DEF KeyInvariant, CallOK, Create, Appended
<1>2. TypeOK /\ CallsTyped /\ n \in 0 .. MaxLog /\ n # 0 /\ Ok(n) \in Answers /\ Grows
  <2>1. TypeOK /\ CallsTyped
    BY TypeParts DEF KeyInvariant
  <2>2. n \in 1 .. MaxLog /\ \A i \in DOMAIN log : i \in DOMAIN log' /\ log'[i] = log[i]
    BY <1>1, <2>1, AppendEffect
  <2>3. n \in 0 .. MaxLog /\ n # 0
    BY <2>2, LogAssumption
  <2> QED BY <2>1, <2>2, <2>3, AnswerForms DEF Grows
<1>3. CallsTyped' /\ Alone(c) /\ CallOK(c)'
  <2>1. CASE Intercepted(request[c])
    <3>1. /\ CallsTyped' /\ Alone(c)
          /\ at'[c] = "executed" /\ request'[c] = request[c] /\ answer'[c] = Ok(n)
      BY <1>1, <1>2, <2>1, ProceedEffect DEF Return, Stages
    <3> QED BY <1>1, <1>2, <2>1, <3>1 DEF CallOK, Intercepted, Ok
  <2>2. CASE ~ Intercepted(request[c])
    <3>1. /\ CallsTyped' /\ Alone(c)
          /\ \/ at'[c] = "idle"
             \/ at'[c] = "answered" /\ request'[c] = request[c] /\ answer'[c] = Ok(n)
      BY <1>1, <1>2, <2>2, ReplyEffect DEF Return
    <3>2. ~ request[c].keyed \/ Kind[request[c].key] = "open"
      BY <1>1, <2>2, KindAssumption DEF Intercepted, Kinds, Strict, Requests
    <3> QED BY <1>1, <3>1, <3>2 DEF CallOK
  <2> QED BY <2>1, <2>2
<1>4. TypeOK'
  BY <1>1, <1>2, <1>3, AppendEffect DEF TypeOK, CallsTyped, Answers, Stages
<1>5. \A d \in Calls : CallOK(d)'
  BY <1>2, <1>3, CallFrame DEF KeyInvariant
<1>6. Kept'
  BY <1>1, <1>2, AppliedEffect DEF KeyInvariant, Kept, Strict
<1> QED BY <1>4, <1>5, <1>6 DEF KeyInvariant

\* Creating a reservation, and keeping its key in the same transaction.
LEMMA ReserveStep ==
    ASSUME KeyInvariant, NEW c \in Calls, at[c] = "running", Create(c),
           Kind[request[c].key] = "reservation", stored[request[c].key] = 0,
           stored' = [stored EXCEPT ![request[c].key] = Len(log) + 1]
    PROVE  KeyInvariant'
<1> DEFINE n == Len(log) + 1
           k == request[c].key
<1>1. request[c] \in Requests /\ Appended(c) /\ k \in Keys /\ Reply(c, Ok(n))
  BY DEF KeyInvariant, CallOK, Create, Appended, Return, Intercepted, Requests
<1>2. /\ TypeOK /\ CallsTyped /\ n \in 1 .. MaxLog /\ Ok(n) \in Answers
      /\ n \in DOMAIN log' /\ log'[n].body = request[c].body
  <2>1. TypeOK /\ CallsTyped
    BY TypeParts DEF KeyInvariant
  <2>2. n \in 1 .. MaxLog /\ n \in DOMAIN log' /\ log'[n].body = request[c].body
    BY <1>1, <2>1, AppendEffect
  <2>3. n \in 0 .. MaxLog
    BY <2>2, LogAssumption
  <2> QED BY <2>1, <2>2, <2>3, AnswerForms
<1>3. stored' \in [Keys -> 0 .. MaxLog] /\ stored'[k] = n /\ \A j \in Keys \ {k} : stored'[j] = stored[j]
  BY <1>1, <1>2 DEF TypeOK
<1>4. Grows
  BY <1>1, <1>2, <1>3, AppendEffect DEF Grows
<1>5. /\ CallsTyped' /\ Alone(c)
      /\ \/ at'[c] = "idle"
         \/ at'[c] = "answered" /\ request'[c] = request[c] /\ answer'[c] = Ok(n)
  BY <1>1, <1>2, ReplyEffect
<1>6. CallOK(c)'
  BY <1>1, <1>2, <1>3, <1>5 DEF CallOK, Ok
<1>7. TypeOK'
  <2>1. log' \in Seq([key : Keys, body : Bodies]) /\ Len(log') <= MaxLog
    BY <1>1, <1>2, AppendEffect
  <2> QED BY <1>3, <1>5, <2>1 DEF TypeOK, CallsTyped, Answers, Stages
<1>8. \A d \in Calls : CallOK(d)'
  BY <1>2, <1>4, <1>5, <1>6, CallFrame DEF KeyInvariant
<1>9. Kept'
  <2> SUFFICES ASSUME NEW j \in Strict
               PROVE  Applied(j)' = IF stored'[j] = 0 THEN {} ELSE {stored'[j]}
    BY DEF Kept, Strict
  <2>1. j \in Keys /\ Applied(j) = IF stored[j] = 0 THEN {} ELSE {stored[j]}
    BY DEF KeyInvariant, Kept, Strict
  <2>2. CASE j = k
    <3>1. Applied(j) = {}
      BY <2>1, <2>2
    <3>2. Applied(j)' = Applied(j) \cup {n}
      BY <1>1, <1>2, <2>1, <2>2, AppliedEffect
    <3>3. stored'[j] = n /\ n # 0
      BY <1>2, <1>3, <2>2
    <3> QED BY <3>1, <3>2, <3>3
  <2>3. CASE j # k
    BY <1>1, <1>2, <1>3, <2>1, <2>3, AppliedEffect
  <2> QED BY <2>2, <2>3
<1> QED BY <1>7, <1>8, <1>9 DEF KeyInvariant

\* The interceptor keeps the first answer of a key, and gives it to its call.
LEMMA RecordStep ==
    ASSUME KeyInvariant, NEW c \in Calls, Record(c)
    PROVE  KeyInvariant'
<1> DEFINE k == request[c].key
<1>1. /\ at[c] = "executed" /\ request[c] \in Requests /\ Intercepted(request[c])
      /\ answer[c].entity # 0 /\ answer[c].entity \in 0 .. MaxLog /\ answer[c] \in Answers
      /\ k \in Keys \ Strict /\ TypeOK /\ CallsTyped /\ log' = log
  BY TypeParts DEF KeyInvariant, CallOK, Record, Requests, Intercepted, Strict, CallsTyped, Answers
<1>2. CASE stored[k] # 0
  <2>1. stored[k] \in 0 .. MaxLog /\ Ok(stored[k]) \in Answers
    BY <1>1, AnswerForms DEF TypeOK
  <2> QED BY <1>1, <1>2, <2>1, QuietReply DEF Record, Ok
<1>3. CASE stored[k] = 0
  <2>1. /\ stored' = [stored EXCEPT ![k] = answer[c].entity] /\ Reply(c, answer[c])
    BY <1>3 DEF Record
  <2>2. /\ CallsTyped' /\ Alone(c)
        /\ \/ at'[c] = "idle"
           \/ at'[c] = "answered" /\ request'[c] = request[c] /\ answer'[c] = answer[c]
    BY <1>1, <2>1, ReplyEffect
  <2>3. stored' \in [Keys -> 0 .. MaxLog] /\ stored'[k] = answer[c].entity
        /\ \A j \in Keys \ {k} : stored'[j] = stored[j]
    BY <1>1, <2>1 DEF TypeOK
  <2>4. CallOK(c)'
    BY <1>1, <2>2, <2>3 DEF CallOK, Strict
  <2>5. Grows
    BY <1>1, <1>3, <2>3 DEF Grows, TypeOK
  <2>6. TypeOK'
    BY <1>1, <2>2, <2>3 DEF TypeOK, CallsTyped, Answers, Stages
  <2>7. \A d \in Calls : CallOK(d)'
    BY <1>1, <2>2, <2>4, <2>5, CallFrame DEF KeyInvariant
  <2>8. Kept'
    BY <1>1, <2>3 DEF KeyInvariant, Kept, Applied, Strict
  <2> QED BY <2>6, <2>7, <2>8 DEF KeyInvariant
<1> QED BY <1>2, <1>3

-----------------------------------------------------------------------------
(* Every step.                                                             *)

\* What the client does.
LEMMA ClientStep ==
    ASSUME KeyInvariant, NEW c \in Calls,
           (\E q \in Requests : Send(c, q)) \/ Hear(c) \/ GiveUp(c)
    PROVE  KeyInvariant'
<1>0. TypeOK /\ CallsTyped
  BY TypeParts DEF KeyInvariant
<1>1. ASSUME NEW q \in Requests, Send(c, q) PROVE KeyInvariant'
  <2>1. /\ CallsTyped' /\ Alone(c) /\ UNCHANGED <<stored, log>>
        /\ at'[c] = "sent" /\ request'[c] = q
    BY <1>0, <1>1 DEF CallsTyped, Send, Alone, Stages
  <2>2. CallOK(c)'
    BY <2>1 DEF CallOK
  <2> QED BY <2>1, <2>2, QuietStep
<1>2. ASSUME Release(c), UNCHANGED <<stored, log>> PROVE KeyInvariant'
  <2>1. CallsTyped' /\ Alone(c) /\ CallOK(c)'
    BY <1>0, <1>2, ReleaseEffect DEF CallOK
  <2> QED BY <1>2, <2>1, QuietStep
<1>3. CASE Hear(c)
  BY <1>2, <1>3 DEF Hear
<1>4. CASE GiveUp(c)
  <2>1. CASE at[c] = "answered"
    BY <1>2, <1>4, <2>1 DEF GiveUp
  <2>2. CASE at[c] # "answered"
    <3>1. /\ CallsTyped' /\ Alone(c) /\ UNCHANGED <<stored, log, at, request, answer>>
      BY <1>0, <1>4, <2>2 DEF CallsTyped, GiveUp, Alone
    <3>2. CallOK(c)'
      BY <3>1 DEF KeyInvariant, CallOK
    <3> QED BY <3>1, <3>2, QuietStep
  <2> QED BY <2>1, <2>2
<1> QED BY <1>1, <1>3, <1>4

\* A handler that finds its effect made already, or refuses, or fails.
LEMMA AgainStep ==
    ASSUME KeyInvariant, NEW c \in Calls, at[c] # "idle", UNCHANGED <<stored, log>>,
           \/ Reply(c, Refused) \/ Reply(c, Failed)
           \/ \E n \in Applied(request[c].key) :
                 Return(c, n) /\ Intercepted(request[c])
    PROVE  KeyInvariant'
<1>1. CASE Reply(c, Refused) \/ Reply(c, Failed)
  BY <1>1, QuietReply, AnswerForms DEF Refused, Failed
<1>2. ASSUME NEW n \in Applied(request[c].key), Return(c, n), Intercepted(request[c])
      PROVE  KeyInvariant'
  <2>1. n \in 0 .. MaxLog /\ n # 0
    BY LogAssumption DEF Applied, KeyInvariant, TypeOK
  <2> QED BY <1>2, <2>1, QuietProceed, AnswerForms DEF Return, Ok
<1> QED BY <1>1, <1>2

\* Every step of a handler.
LEMMA HandlerStep ==
    ASSUME KeyInvariant, NEW c \in Calls, Execute(c)
    PROVE  KeyInvariant'
<1>0. /\ TypeOK /\ at[c] = "running" /\ request[c] \in Requests /\ request[c].key \in Keys
  BY DEF KeyInvariant, CallOK, Execute, ExecuteOpen, ExecuteReservation, ExecuteTransfer,
         ExecuteSubmit, Requests
<1>1. CASE ExecuteOpen(c)
  BY <1>0, <1>1, CreateStep DEF ExecuteOpen, Strict
<1>2. CASE ExecuteReservation(c)
  <2>1. Kind[request[c].key] = "reservation" /\ request[c].key \in Strict
    BY <1>0, <1>2 DEF ExecuteReservation, Strict
  <2>2. CASE stored[request[c].key] = 0
    BY <1>0, <1>2, <2>1, <2>2, ReserveStep DEF ExecuteReservation
  <2>3. CASE stored[request[c].key] # 0
    <3> DEFINE n == stored[request[c].key]
    <3>1. n \in DOMAIN log
      BY <2>1, <2>3 DEF KeyInvariant, Kept, Applied
    <3>2. Ok(n) \in Answers
      BY <1>0, AnswerForms DEF TypeOK
    <3>3. CASE log[n].body = request[c].body
      <4>1. Reply(c, Ok(n)) /\ UNCHANGED <<stored, log>>
        BY <1>2, <2>3, <3>3 DEF ExecuteReservation
      <4> QED BY <1>0, <2>3, <3>1, <3>2, <3>3, <4>1, QuietReply DEF Ok
    <3>4. CASE log[n].body # request[c].body
      <4>1. Reply(c, Refused) /\ UNCHANGED <<stored, log>>
        BY <1>2, <2>3, <3>4 DEF ExecuteReservation
      <4> QED BY <1>0, <4>1, AgainStep
    <3> QED BY <3>3, <3>4
  <2> QED BY <2>2, <2>3
<1>3. CASE ExecuteTransfer(c) \/ ExecuteSubmit(c)
  <2>1. request[c].key \notin Strict /\ Intercepted(request[c]) /\ UNCHANGED stored
    BY <1>0, <1>3 DEF ExecuteTransfer, ExecuteSubmit, Strict, Intercepted, Requests
  <2>2. CASE Applied(request[c].key) = {}
    BY <1>0, <1>3, <2>1, <2>2, CreateStep DEF ExecuteTransfer, ExecuteSubmit
  <2>3. CASE Applied(request[c].key) # {}
    <3>1. /\ UNCHANGED log
          /\ Reply(c, Refused) \/ \E n \in Applied(request[c].key) : Return(c, n)
      BY <1>3, <2>3 DEF ExecuteTransfer, ExecuteSubmit
    <3> QED BY <1>0, <2>1, <3>1, AgainStep
  <2> QED BY <2>2, <2>3
<1> QED BY <1>1, <1>2, <1>3 DEF Execute

\* Every step keeps the invariant.
LEMMA KeyStep == KeyInvariant /\ [Next]_vars => KeyInvariant'
<1> SUFFICES ASSUME KeyInvariant, [Next]_vars PROVE KeyInvariant'
  OBVIOUS
<1>1. ASSUME NEW c \in Calls, Lookup(c) PROVE KeyInvariant'
  <2> DEFINE k == request[c].key
  <2>1. at[c] = "sent" /\ request[c] \in Requests /\ k \in Keys /\ TypeOK /\ UNCHANGED <<stored, log>>
    BY <1>1 DEF KeyInvariant, CallOK, Lookup, Requests
  <2>2. CASE Intercepted(request[c]) /\ stored[k] # 0
    <3>1. Ok(stored[k]) \in Answers /\ Reply(c, Ok(stored[k])) /\ k \notin Strict
      BY <1>1, <2>1, <2>2, AnswerForms DEF Lookup, TypeOK, Intercepted, Strict
    <3> QED BY <2>1, <2>2, <3>1, QuietReply DEF Ok
  <2>3. CASE ~ (Intercepted(request[c]) /\ stored[k] # 0)
    <3>1. Proceed(c, "running", NoAnswer)
      BY <1>1, <2>3 DEF Lookup
    <3> QED BY <2>1, <3>1, QuietProceed, AnswerForms
  <2> QED BY <2>2, <2>3
<1>2. ASSUME NEW c \in Calls, Refuse(c) \/ Crash(c) PROVE KeyInvariant'
  BY <1>2, AgainStep DEF Refuse, Crash
<1>3. ASSUME UNCHANGED vars PROVE KeyInvariant'
  BY <1>3 DEF vars, KeyInvariant, TypeOK, CallOK, Kept, Applied, Intercepted
<1> QED BY <1>1, <1>2, <1>3, ClientStep, HandlerStep, RecordStep DEF Next, Serve

\* The empty server.
LEMMA KeyInit == Init => KeyInvariant
<1> SUFFICES ASSUME Init PROVE KeyInvariant
  OBVIOUS
<1>1. NoAnswer \in Answers
  BY AnswerForms
<1>2. TypeOK
  BY <1>1, LogAssumption DEF Init, TypeOK, Answers
<1>3. (\A c \in Calls : CallOK(c)) /\ Kept
  BY DEF Init, CallOK, Kept, Applied, Strict
<1> QED BY <1>2, <1>3 DEF KeyInvariant

\* In every reachable state, types are right, calls are sound, and a strict key
\* names the only effect made under it (interceptor and reservation keys).
THEOREM KeyInvariance == Spec => []KeyInvariant
BY KeyInit, KeyStep, PTL DEF Spec

\* In particular the types are right.
THEOREM TypeCorrect == Spec => []TypeOK
BY KeyInvariance, PTL DEF KeyInvariant

\* Whoever is told "done" behind the interceptor, or of a reservation, is told of
\* the entity kept for the key (AnswersAgree), however many calls overlap.
THEOREM AnswersAgreeAlways == Spec => []AnswersAgree
<1>1. KeyInvariant => AnswersAgree
  BY DEF KeyInvariant, CallOK, AnswersAgree
<1> QED BY <1>1, KeyInvariance, PTL

-----------------------------------------------------------------------------
(* Refinement.                                                             *)

\* What was applied under a strict key, by the entity kept for it.
LEMMA HeldIs ==
    ASSUME KeyInvariant, NEW k \in Strict
    PROVE  /\ stored[k] = 0 => Held[k] = None
           /\ stored[k] # 0 => stored[k] \in DOMAIN log /\ Held[k] = log[stored[k]].body
<1>1. CASE stored[k] = 0
  BY <1>1 DEF KeyInvariant, Kept, Held
<1>2. CASE stored[k] # 0
  <2>1. Applied(k) = {stored[k]} /\ stored[k] \in DOMAIN log
    BY <1>2 DEF KeyInvariant, Kept, Applied
  <2>2. (CHOOSE n \in DOMAIN log : Applied(k) = {n}) = stored[k]
    BY <2>1
  <2>3. Held[k] = log[CHOOSE n \in DOMAIN log : Applied(k) = {n}].body
    BY <2>1 DEF Held
  <2> QED BY <1>2, <2>1, <2>2, <2>3
<1> QED BY <1>1, <1>2

\* The same after a step.
LEMMA HeldNext ==
    ASSUME KeyInvariant', NEW k \in Strict
    PROVE  /\ stored'[k] = 0 => Held'[k] = None
           /\ stored'[k] # 0 => stored'[k] \in DOMAIN log' /\ Held'[k] = log'[stored'[k]].body
<1>1. CASE stored'[k] = 0
  BY <1>1 DEF KeyInvariant, Kept, Held
<1>2. CASE stored'[k] # 0
  <2>1. Applied(k)' = {stored'[k]} /\ stored'[k] \in DOMAIN log'
    BY <1>2 DEF KeyInvariant, Kept, Applied
  <2>2. (CHOOSE n \in DOMAIN log' : Applied(k)' = {n}) = stored'[k]
    BY <2>1
  <2>3. Held'[k] = log'[CHOOSE n \in DOMAIN log' : Applied(k)' = {n}].body
    BY <2>1 DEF Held
  <2> QED BY <1>2, <2>1, <2>2, <2>3
<1> QED BY <1>1, <1>2

\* A step of a call moves that call alone.
LEMMA AloneForms ==
    ASSUME CallsTyped, NEW c \in Calls
    PROVE  /\ Release(c) => Alone(c)
           /\ \A a : Reply(c, a) => Alone(c)
           /\ \A stage, a : Proceed(c, stage, a) => Alone(c)
           /\ \A n : Return(c, n) => Alone(c)
<1>1. Release(c) => Alone(c)
  BY DEF CallsTyped, Release, Alone
<1>2. \A stage, a : Proceed(c, stage, a) => Alone(c)
  BY DEF CallsTyped, Proceed, Alone
<1>3. \A a : Reply(c, a) => Alone(c)
  BY <1>1 DEF CallsTyped, Reply, Alone
<1> QED BY <1>1, <1>2, <1>3 DEF Return

\* A step of the system is one call's: it writes at most the key of its request,
\* only if that was not kept before, and undoes no effect.
OneCall(c) ==
    /\ Alone(c) /\ Grows
    /\ \A k \in Keys : k # request[c].key => stored'[k] = stored[k]

\* Every step is one call's.
LEMMA StepIsOneCall == KeyInvariant /\ Next => \E c \in Calls : OneCall(c)
<1> SUFFICES ASSUME KeyInvariant, Next PROVE \E c \in Calls : OneCall(c)
  OBVIOUS
<1>0. TypeOK /\ CallsTyped
  BY TypeParts DEF KeyInvariant
<1> PICK c \in Calls : \/ (\E q \in Requests : Send(c, q)) \/ Hear(c) \/ GiveUp(c)
                        \/ Serve(c) \/ Crash(c)
  BY DEF Next
<1>1. ASSUME UNCHANGED <<stored, log>>, Alone(c) PROVE OneCall(c)
  BY <1>0, <1>1, NoGrowth DEF OneCall
<1>2. CASE (\E q \in Requests : Send(c, q)) \/ Hear(c) \/ GiveUp(c)
  <2>1. UNCHANGED <<stored, log>>
    BY <1>2 DEF Send, Hear, GiveUp
  <2>2. Alone(c)
    BY <1>0, <1>2, AloneForms DEF CallsTyped, Send, Hear, GiveUp, Alone
  <2> QED BY <1>1, <2>1, <2>2
<1>3. CASE Lookup(c) \/ Refuse(c) \/ Crash(c)
  <2>1. UNCHANGED <<stored, log>> /\ Alone(c)
    BY <1>0, <1>3, AloneForms DEF Lookup, Refuse, Crash
  <2> QED BY <1>1, <2>1
<1>4. ASSUME Create(c), at[c] = "running"
      PROVE  Alone(c) /\ \A n \in DOMAIN log : n \in DOMAIN log' /\ log'[n] = log[n]
  <2>1. request[c] \in Requests /\ Appended(c)
    BY <1>4 DEF KeyInvariant, CallOK, Create, Appended
  <2> QED BY <1>0, <1>4, <2>1, AloneForms, AppendEffect DEF Create
<1>5. CASE ExecuteOpen(c)
  BY <1>4, <1>5 DEF ExecuteOpen, OneCall, Grows
<1>6. CASE ExecuteReservation(c)
  <2>1. CASE stored[request[c].key] # 0
    <3>1. UNCHANGED <<stored, log>> /\ \E a : Reply(c, a)
      BY <1>6, <2>1 DEF ExecuteReservation
    <3> QED BY <1>0, <1>1, <3>1, AloneForms
  <2>2. CASE stored[request[c].key] = 0
    <3>1. Create(c) /\ at[c] = "running" /\ stored' = [stored EXCEPT ![request[c].key] = Len(log) + 1]
      BY <1>6, <2>2 DEF ExecuteReservation
    <3>2. \A k \in Keys : k # request[c].key => stored'[k] = stored[k]
      BY <1>0, <3>1 DEF TypeOK
    <3> QED BY <1>4, <2>2, <3>1, <3>2 DEF OneCall, Grows
  <2> QED BY <2>1, <2>2
<1>7. CASE ExecuteTransfer(c) \/ ExecuteSubmit(c)
  <2>1. CASE Applied(request[c].key) = {}
    BY <1>4, <1>7, <2>1 DEF ExecuteTransfer, ExecuteSubmit, OneCall, Grows
  <2>2. CASE Applied(request[c].key) # {}
    <3>1. UNCHANGED <<stored, log>> /\ ((\E a : Reply(c, a)) \/ \E n : Return(c, n))
      BY <1>7, <2>2 DEF ExecuteTransfer, ExecuteSubmit
    <3> QED BY <1>0, <1>1, <3>1, AloneForms
  <2> QED BY <2>1, <2>2
<1>8. CASE Record(c)
  <2>1. Alone(c) /\ UNCHANGED log
    BY <1>0, <1>8, AloneForms DEF Record
  <2>2. CASE stored[request[c].key] # 0
    BY <1>1, <1>8, <2>1, <2>2 DEF Record
  <2>3. CASE stored[request[c].key] = 0
    <3>1. \A k \in Keys : k # request[c].key => stored'[k] = stored[k]
      BY <1>0, <1>8, <2>3 DEF TypeOK, Record
    <3> QED BY <2>1, <2>3, <3>1 DEF OneCall, Grows
  <2> QED BY <2>2, <2>3
<1> QED BY <1>2, <1>3, <1>5, <1>6, <1>7, <1>8 DEF Serve, Execute

\* The keys kept with what they guard implement ExactlyOnce: each is applied once,
\* and a client is only told "done" of the very request that was applied
\* (POST /reservations).
THEOREM KeysImplementOnce == Spec => ImplementsOnce
<1>1. Init => Once!Init
  <2> SUFFICES ASSUME Init PROVE Once!Init
    OBVIOUS
  <2>1. Held = [k \in Strict |-> None]
    BY DEF Init, Held, Applied
  <2>2. Told = [c \in Calls |-> None]
    BY DEF Init, Told
  <2> QED BY <2>1, <2>2 DEF Once!Init
<1>2. KeyInvariant /\ KeyInvariant' /\ [Next]_vars => [Once!Next]_(Once!vars)
  <2> SUFFICES ASSUME KeyInvariant, KeyInvariant', [Next]_vars PROVE [Once!Next]_(Once!vars)
    OBVIOUS
  <2>1. CASE UNCHANGED vars
    BY <2>1 DEF vars, Once!vars, Held, Told, Applied
  <2>2. CASE Next
    <3> PICK c \in Calls : OneCall(c)
      BY <2>2, StepIsOneCall
    <3> DEFINE k == request[c].key
    <3>1. \A j \in Strict : stored[j] # 0 \/ stored'[j] = 0 => Held'[j] = Held[j]
      <4> SUFFICES ASSUME NEW j \in Strict, stored[j] # 0 \/ stored'[j] = 0 PROVE Held'[j] = Held[j]
        OBVIOUS
      <4>1. CASE stored[j] # 0
        <5>1. stored'[j] = stored[j] /\ stored[j] \in DOMAIN log /\ log'[stored[j]] = log[stored[j]]
          BY <4>1, HeldIs DEF OneCall, Grows, Strict
        <5> QED BY <4>1, <5>1, HeldIs, HeldNext
      <4>2. CASE stored[j] = 0
        BY <4>2, HeldIs, HeldNext
      <4> QED BY <4>1, <4>2
    <3>2. (UNCHANGED Held) \/ \E j \in Strict, b \in Bodies : Once!Apply(j, b)
      <4>1. CASE k \in Strict /\ stored[k] = 0 /\ stored'[k] # 0
        <5> DEFINE b == log'[stored'[k]].body
        <5>1. Held[k] = None /\ Held'[k] = b /\ stored'[k] \in DOMAIN log'
          BY <4>1, HeldIs, HeldNext
        <5>2. b \in Bodies
          <6>1. log' \in Seq([key : Keys, body : Bodies])
            BY DEF KeyInvariant, TypeOK
          <6>2. log'[stored'[k]] \in [key : Keys, body : Bodies]
            BY <5>1, <6>1, SequenceElement
          <6> QED BY <6>2
        <5>3. \A j \in Strict : j # k => Held'[j] = Held[j]
          BY <3>1 DEF OneCall, Strict
        <5>4. Held' = [Held EXCEPT ![k] = b]
          <6>1. Held \in [Strict -> {Held[j] : j \in Strict}] /\ Held' = [j \in Strict |-> Held'[j]]
            BY DEF Held
          <6> QED BY <4>1, <5>1, <5>3, <6>1
        <5> QED BY <4>1, <5>1, <5>2, <5>4 DEF Once!Apply
      <4>2. CASE ~ (k \in Strict /\ stored[k] = 0 /\ stored'[k] # 0)
        <5>1. \A j \in Strict : Held'[j] = Held[j]
          BY <3>1, <4>2 DEF OneCall, Strict
        <5>2. Held = [j \in Strict |-> Held[j]] /\ Held' = [j \in Strict |-> Held'[j]]
          BY DEF Held
        <5> QED BY <5>1, <5>2
      <4> QED BY <4>1, <4>2
    <3>3. \E t \in (Strict \X Bodies) \cup {None} : Once!Tell(c, t)
      <4> DEFINE t == Told'[c]
      <4>1. Told' = [Told EXCEPT ![c] = t]
        <5>1. \A d \in Calls \ {c} : Told'[d] = Told[d]
          BY DEF Told, OneCall, Alone
        <5>2. Told = [d \in Calls |-> Told[d]] /\ Told' = [d \in Calls |-> Told'[d]]
          BY DEF Told
        <5> QED BY <5>1, <5>2
      <4>2. CASE at'[c] = "answered" /\ answer'[c].status = "ok" /\ request'[c].key \in Strict
        <5> DEFINE q == request'[c]
        <5>1. t = <<q.key, q.body>>
          BY <4>2 DEF Told
        <5>2. q \in Requests /\ q.keyed /\ Kind[q.key] = "reservation" /\ q.body \in Bodies
          BY <4>2 DEF KeyInvariant, CallOK, Requests, Strict
        <5>3. stored'[q.key] # 0 /\ log'[stored'[q.key]].body = q.body
          BY <4>2, <5>2 DEF KeyInvariant, CallOK
        <5>4. Held'[q.key] = q.body
          BY <4>2, <5>3, HeldNext
        <5> QED BY <4>1, <4>2, <5>1, <5>2, <5>4 DEF Once!Tell
      <4>3. CASE ~ (at'[c] = "answered" /\ answer'[c].status = "ok" /\ request'[c].key \in Strict)
        <5>1. t = None
          BY <4>3 DEF Told
        <5> QED BY <4>1, <5>1 DEF Once!Tell
      <4> QED BY <4>2, <4>3
    <3> QED BY <3>2, <3>3 DEF Once!Next
  <2> QED BY <2>1, <2>2
<1> QED BY <1>1, <1>2, KeyInvariance, PTL DEF Spec, ImplementsOnce, Once!Spec
=============================================================================
