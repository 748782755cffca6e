------------------------- MODULE DraftGatewayProofs -------------------------
(***************************************************************************)
(* Proofs about DraftGateway: whatever overlaps, fails or is retried, a    *)
(* reference has one draft and a table's numbers differ, no table stays    *)
(* locked, and marked references implement ExactlyOnce; for any            *)
(* references, contents, tables and jobs.                                  *)
(***************************************************************************)
EXTENDS DraftGateway, TLAPS

Answers == [status : {"ok", "failed", "none"}, no : 0 .. MaxNo]

OneEach == \A d, e \in drafts : d.ref = e.ref => d = e

\* What a job knows: its table is locked while it is in its transaction, the
\* number it has taken is new and so is its reference, and what it has answered
\* is so.
JobOK(j) ==
    /\ stage[j] \in Holding => lock[TableOf(j)] = j
    /\ stage[j] = "numbered" =>
          /\ number[j] \in 1 .. MaxNo /\ Existing(asks[j].ref) = {}
          /\ \A d \in In(TableOf(j)) : d.no < number[j]
    /\ stage[j] = "answered" /\ reply[j].status = "ok" =>
          \E d \in Existing(asks[j].ref) :
             d.no = reply[j].no /\ (asks[j].ref \in Marked => d.body = asks[j].body)

GatewayInvariant ==
    GatewayTypeOK /\ LockHeld /\ NumbersDiffer /\ OneEach /\ \A j \in Jobs : JobOK(j)

-----------------------------------------------------------------------------
(* Frames.                                                                 *)

JobsTyped ==
    /\ stage \in [Jobs -> Stages]
    /\ asks \in [Jobs -> Request \cup {NoRequest}]
    /\ \A j \in Jobs : stage[j] = "idle" <=> asks[j] = NoRequest
    /\ waits \in [Jobs -> BOOLEAN]
    /\ reply \in [Jobs -> Answers]

\* The other jobs do not notice.
Alone(j) ==
    \A i \in Jobs \ {j} : /\ stage'[i] = stage[i] /\ asks'[i] = asks[i]
                          /\ waits'[i] = waits[i] /\ reply'[i] = reply[i]

\* A job takes a free table or leaves its own.
LocksOwn(j) ==
    /\ lock' \in [Tables -> Jobs \cup {None}]
    /\ \A t \in Tables : lock'[t] # lock[t] => lock[t] \in {j, None} /\ lock'[t] \in {j, None}

\* It writes drafts to a table it holds, and removes none.
WritesOwn(j) ==
    /\ drafts \subseteq drafts'
    /\ \A d \in drafts' \ drafts : d.ref \in References /\ lock[Table[d.ref]] = j

NumbersOwn(j) ==
    number' \in [Jobs -> 0 .. MaxNo] /\ \A i \in Jobs \ {j} : number'[i] = number[i]

\* GatewayTypeOK is about jobs, locks, numbers and drafts.
LEMMA TypeParts ==
    GatewayTypeOK <=> /\ JobsTyped
                      /\ drafts \subseteq [ref : References, body : Bodies, no : 1 .. MaxNo]
                      /\ lock \in [Tables -> Jobs \cup {None}]
                      /\ number \in [Jobs -> 0 .. MaxNo]
BY DEF GatewayTypeOK, JobsTyped, Answers

\* A job that carries something has a table.
LEMMA TableTyped ==
    ASSUME JobsTyped, NEW j \in Jobs, stage[j] # "idle"
    PROVE  asks[j] \in Request /\ asks[j].ref \in References /\ TableOf(j) \in Tables
BY GatewayAssumption DEF JobsTyped, Request, TableOf

\* The other jobs stay sound: their tables are not this job's.
LEMMA OthersKeep ==
    ASSUME GatewayInvariant, NEW j \in Jobs, NEW i \in Jobs \ {j},
           Alone(j), LocksOwn(j), WritesOwn(j), NumbersOwn(j)
    PROVE  JobOK(i)'
<1> USE DEF GatewayInvariant
<1>1. i # None /\ JobOK(i) /\ JobsTyped
  BY NoneAssumption, TypeParts
<1>2. stage'[i] = stage[i] /\ asks'[i] = asks[i] /\ reply'[i] = reply[i] /\ number'[i] = number[i]
  BY DEF Alone, NumbersOwn
<1>3. TableOf(i)' = TableOf(i)
  BY <1>2 DEF TableOf
<1>4. ASSUME stage[i] \in Holding
      PROVE  /\ lock'[TableOf(i)] = i
             /\ \A d \in drafts' : Table[d.ref] = TableOf(i) => d \in drafts
  <2>1. TableOf(i) \in Tables /\ lock[TableOf(i)] = i
    BY <1>1, <1>4, TableTyped DEF JobOK, Holding
  <2> QED BY <1>1, <2>1 DEF LocksOwn, WritesOwn
<1>5. stage'[i] \in Holding => lock'[TableOf(i)'] = i
  BY <1>2, <1>3, <1>4
<1>6. ASSUME stage'[i] = "numbered"
      PROVE  /\ number'[i] \in 1 .. MaxNo /\ Existing(asks[i].ref)' = {}
             /\ \A d \in In(TableOf(i))' : d.no < number'[i]
  BY <1>1, <1>2, <1>3, <1>4, <1>6 DEF JobOK, Holding, Existing, In, TableOf
<1>7. ASSUME stage'[i] = "answered", reply'[i].status = "ok"
      PROVE  \E d \in Existing(asks[i].ref)' :
                d.no = reply'[i].no /\ (asks'[i].ref \in Marked => d.body = asks'[i].body)
  BY <1>1, <1>2, <1>7 DEF JobOK, Existing, WritesOwn
<1> QED BY <1>2, <1>5, <1>6, <1>7 DEF JobOK, TableOf, Existing, In

\* Clear empties the job.
LEMMA ClearEffect ==
    ASSUME JobsTyped, NEW j \in Jobs, Clear(j)
    PROVE  JobsTyped' /\ Alone(j) /\ stage'[j] = "idle"
<1>1. NoReply \in Answers
  BY GatewayAssumption DEF NoReply, Answers
<1>2. /\ stage' \in [Jobs -> Stages] /\ asks' \in [Jobs -> Request \cup {NoRequest}]
      /\ waits' \in [Jobs -> BOOLEAN] /\ reply' \in [Jobs -> Answers]
  BY <1>1 DEF JobsTyped, Clear, Stages
<1>3. Alone(j) /\ stage'[j] = "idle" /\ asks'[j] = NoRequest
  BY DEF JobsTyped, Clear, Alone
<1> QED BY <1>2, <1>3 DEF JobsTyped, Alone

\* An answer reaches whoever waits; otherwise the job is empty.
LEMMA AnswerEffect ==
    ASSUME JobsTyped, NEW j \in Jobs, stage[j] # "idle", NEW a \in Answers, Answer(j, a)
    PROVE  /\ JobsTyped' /\ Alone(j)
           /\ \/ stage'[j] = "answered" /\ reply'[j] = a /\ asks'[j] = asks[j]
              \/ stage'[j] = "idle"
<1>1. CASE waits[j]
  BY <1>1 DEF Answer, JobsTyped, Alone, Stages
<1>2. CASE ~waits[j]
  BY <1>2, ClearEffect DEF Answer
<1> QED BY <1>1, <1>2

\* Proceed only moves the job on.
LEMMA ProceedEffect ==
    ASSUME JobsTyped, NEW j \in Jobs, stage[j] # "idle", NEW s \in Holding, Proceed(j, s)
    PROVE  JobsTyped' /\ Alone(j) /\ stage'[j] = s /\ asks' = asks
BY DEF JobsTyped, Proceed, Alone, Stages, Holding

\* The answers there are.
LEMMA AnswerForms ==
    Failed \in Answers /\ \A n \in 0 .. MaxNo : Ok(n) \in Answers
BY GatewayAssumption DEF Answers, Ok, Failed

\* After a commit or a rollback the job holds nothing, and nobody else's table
\* was freed.
LEMMA EndEffect ==
    ASSUME GatewayTypeOK, NEW j \in Jobs, EndTransaction(j)
    PROVE  /\ LocksOwn(j) /\ NumbersOwn(j)
           /\ \A t \in Tables : lock'[t] # j /\ (lock'[t] # None => lock'[t] = lock[t])
<1>1. \A t \in Tables : lock'[t] = IF lock[t] = j THEN None ELSE lock[t]
  BY DEF EndTransaction
<1>2. lock' \in [Tables -> Jobs \cup {None}]
  BY DEF EndTransaction, GatewayTypeOK
<1>3. NumbersOwn(j)
  BY GatewayAssumption DEF EndTransaction, GatewayTypeOK, NumbersOwn
<1> QED BY <1>1, <1>2, <1>3, NoneAssumption DEF LocksOwn

\* LockHeld, where a job only leaves its table.
LEMMA LeftHeld ==
    ASSUME GatewayInvariant, NEW j \in Jobs, Alone(j),
           \A t \in Tables : lock'[t] # j /\ (lock'[t] # None => lock'[t] = lock[t])
    PROVE  LockHeld'
<1> SUFFICES ASSUME NEW t \in Tables, lock'[t] # None
             PROVE  stage'[lock'[t]] \in Holding /\ TableOf(lock[t])' = t
  BY DEF LockHeld, TableOf
<1>1. lock'[t] = lock[t] /\ lock[t] \in Jobs \ {j}
  BY DEF GatewayInvariant, GatewayTypeOK
<1>2. stage[lock[t]] \in Holding /\ TableOf(lock[t]) = t
  BY <1>1 DEF GatewayInvariant, LockHeld
<1> QED BY <1>1, <1>2 DEF Alone, TableOf

-----------------------------------------------------------------------------
(* Every step.                                                             *)

\* Steps that touch no table, draft or number, and leave the job nothing to know.
LEMMA QuietStep ==
    ASSUME GatewayInvariant, NEW j \in Jobs, JobsTyped', Alone(j),
           UNCHANGED <<drafts, lock, number>>, JobOK(j)',
           stage[j] \in Holding => stage'[j] = stage[j] /\ asks'[j] = asks[j]
    PROVE  GatewayInvariant'
<1>1. LocksOwn(j) /\ WritesOwn(j) /\ NumbersOwn(j)
  BY DEF GatewayInvariant, GatewayTypeOK, LocksOwn, WritesOwn, NumbersOwn
<1>2. \A i \in Jobs : JobOK(i)'
  BY <1>1, OthersKeep
<1>3. GatewayTypeOK'
  BY TypeParts DEF GatewayInvariant, GatewayTypeOK, JobsTyped, Answers
<1>4. LockHeld'
  <2> SUFFICES ASSUME NEW t \in Tables, lock[t] # None
               PROVE  stage'[lock[t]] \in Holding /\ TableOf(lock[t])' = t
    BY DEF LockHeld, TableOf
  <2>1. lock[t] \in Jobs /\ stage[lock[t]] \in Holding /\ TableOf(lock[t]) = t
    BY DEF GatewayInvariant, GatewayTypeOK, LockHeld
  <2> QED BY <2>1 DEF Alone, TableOf
<1>5. NumbersDiffer' /\ OneEach'
  BY DEF GatewayInvariant, NumbersDiffer, OneEach
<1> QED BY <1>2, <1>3, <1>4, <1>5 DEF GatewayInvariant

\* The caller's steps.
LEMMA CallerStep ==
    ASSUME GatewayInvariant, NEW j \in Jobs,
           (\E q \in Request : Post(j, q)) \/ Hear(j) \/ GiveUp(j)
    PROVE  GatewayInvariant'
<1>0. JobsTyped /\ JobOK(j)
  BY TypeParts DEF GatewayInvariant
<1>1. ASSUME NEW q \in Request, Post(j, q) PROVE GatewayInvariant'
  <2>1. q # NoRequest
    BY NoneAssumption DEF Request, NoRequest
  <2>2. JobsTyped'
    BY <1>0, <1>1, <2>1 DEF JobsTyped, Post, Stages
  <2>3. Alone(j) /\ stage'[j] = "sent"
    BY <1>0, <1>1 DEF JobsTyped, Post, Alone
  <2>4. JobOK(j)' /\ stage[j] \notin Holding
    BY <1>1, <2>3 DEF JobOK, Holding, Post
  <2> QED BY <1>1, <2>2, <2>3, <2>4, QuietStep DEF Post
<1>2. ASSUME Clear(j), stage[j] = "answered", UNCHANGED <<drafts, lock, number>>
      PROVE  GatewayInvariant'
  <2>1. JobsTyped' /\ Alone(j) /\ stage'[j] = "idle"
    BY <1>0, <1>2, ClearEffect
  <2>2. JobOK(j)' /\ stage[j] \notin Holding
    BY <1>2, <2>1 DEF JobOK, Holding
  <2> QED BY <1>2, <2>1, <2>2, QuietStep
<1>3. ASSUME waits' = [waits EXCEPT ![j] = FALSE], UNCHANGED <<stage, asks, reply, drafts, lock, number>>
      PROVE  GatewayInvariant'
  <2>1. JobsTyped' /\ Alone(j)
    BY <1>0, <1>3 DEF JobsTyped, Alone
  <2>2. JobOK(j)'
    BY <1>0, <1>3 DEF JobOK, TableOf, Existing, In
  <2> QED BY <1>3, <2>1, <2>2, QuietStep
<1> QED BY <1>1, <1>2, <1>3 DEF Hear, GiveUp

\* Taking the table.
LEMMA LockStep ==
    ASSUME GatewayInvariant, NEW j \in Jobs, LockTable(j)
    PROVE  GatewayInvariant'
<1>0. JobsTyped /\ stage[j] = "sent" /\ lock[TableOf(j)] = None
  BY TypeParts DEF GatewayInvariant, LockTable
<1>1. TableOf(j) \in Tables
  BY <1>0, TableTyped
<1>2. JobsTyped' /\ Alone(j) /\ stage'[j] = "locked" /\ asks' = asks
  BY <1>0, ProceedEffect DEF LockTable, Holding
<1>3. lock' = [lock EXCEPT ![TableOf(j)] = j] /\ UNCHANGED <<drafts, number>>
  BY DEF LockTable
<1>4. lock \in [Tables -> Jobs \cup {None}]
  BY DEF GatewayInvariant, GatewayTypeOK
<1>5. LocksOwn(j) /\ WritesOwn(j) /\ NumbersOwn(j)
  BY <1>0, <1>3, <1>4 DEF GatewayInvariant, GatewayTypeOK, LocksOwn, WritesOwn, NumbersOwn
<1>6. JobOK(j)'
  BY <1>1, <1>2, <1>3, <1>4 DEF JobOK, TableOf
<1>7. LockHeld'
  <2> SUFFICES ASSUME NEW t \in Tables, lock'[t] # None
               PROVE  stage'[lock'[t]] \in Holding /\ Table[asks[lock'[t]].ref] = t
    BY <1>2 DEF LockHeld, TableOf
  <2>1. CASE t = TableOf(j)
    BY <1>2, <1>3, <1>4, <2>1 DEF TableOf, Holding
  <2>2. CASE t # TableOf(j)
    <3>1. lock'[t] = lock[t] /\ lock[t] \in Jobs
      BY <1>3, <1>4, <2>2
    <3>2. stage[lock[t]] \in Holding /\ TableOf(lock[t]) = t
      BY <3>1 DEF GatewayInvariant, LockHeld
    <3>3. lock[t] # j
      BY <1>0, <3>2 DEF Holding
    <3> QED BY <1>2, <3>1, <3>2, <3>3 DEF Alone, TableOf
  <2> QED BY <2>1, <2>2
<1>8. GatewayTypeOK'
  BY <1>2, <1>3, <1>5, TypeParts DEF GatewayInvariant, GatewayTypeOK, JobsTyped, LocksOwn, Answers
<1>9. NumbersDiffer' /\ OneEach'
  BY <1>3 DEF GatewayInvariant, NumbersDiffer, OneEach
<1> QED BY <1>2, <1>5, <1>6, <1>7, <1>8, <1>9, OthersKeep DEF GatewayInvariant

\* Taking a number.
LEMMA NumberStep ==
    ASSUME GatewayInvariant, NEW j \in Jobs, TakeNumber(j)
    PROVE  GatewayInvariant'
<1>0. JobsTyped /\ stage[j] = "locked" /\ JobOK(j)
  BY TypeParts DEF GatewayInvariant, TakeNumber
<1>1. PICK n \in 1 .. MaxNo : IsNext(n, TableOf(j)) /\ number' = [number EXCEPT ![j] = n]
  BY DEF TakeNumber
<1>2. JobsTyped' /\ Alone(j) /\ stage'[j] = "numbered" /\ asks' = asks
  BY <1>0, ProceedEffect DEF TakeNumber, Holding
<1>3. UNCHANGED <<drafts, lock>> /\ Existing(asks[j].ref) = {}
  BY DEF TakeNumber
<1>4. LocksOwn(j) /\ WritesOwn(j) /\ NumbersOwn(j)
  BY <1>1, <1>3, GatewayAssumption
  DEF GatewayInvariant, GatewayTypeOK, LocksOwn, WritesOwn, NumbersOwn
<1>5. number'[j] = n
  BY <1>1 DEF GatewayInvariant, GatewayTypeOK
<1>6. JobOK(j)'
  BY <1>0, <1>1, <1>2, <1>3, <1>5 DEF JobOK, TableOf, Existing, In, IsNext, Holding
<1>7. LockHeld'
  <2> SUFFICES ASSUME NEW t \in Tables, lock[t] # None
               PROVE  stage'[lock[t]] \in Holding /\ Table[asks[lock[t]].ref] = t
    BY <1>2, <1>3 DEF LockHeld, TableOf
  <2>1. lock[t] \in Jobs /\ stage[lock[t]] \in Holding /\ TableOf(lock[t]) = t
    BY DEF GatewayInvariant, GatewayTypeOK, LockHeld
  <2> QED BY <1>2, <2>1 DEF Alone, TableOf, Holding
<1>8. GatewayTypeOK'
  BY <1>2, <1>3, <1>4, TypeParts DEF GatewayInvariant, GatewayTypeOK, JobsTyped, NumbersOwn, Answers
<1>9. NumbersDiffer' /\ OneEach'
  BY <1>3 DEF GatewayInvariant, NumbersDiffer, OneEach
<1> QED BY <1>2, <1>4, <1>6, <1>7, <1>8, <1>9, OthersKeep DEF GatewayInvariant

\* An end of the transaction that is sound for its caller, and sound drafts.
LEMMA EndStep ==
    ASSUME GatewayInvariant, NEW j \in Jobs, stage[j] # "idle", NEW a \in Answers,
           Answer(j, a), EndTransaction(j), WritesOwn(j),
           drafts' \subseteq [ref : References, body : Bodies, no : 1 .. MaxNo],
           NumbersDiffer', OneEach',
           a.status = "ok" => \E d \in drafts' :
              d.ref = asks[j].ref /\ d.no = a.no /\ (asks[j].ref \in Marked => d.body = asks[j].body)
    PROVE  GatewayInvariant'
<1>1. JobsTyped /\ GatewayTypeOK
  BY TypeParts DEF GatewayInvariant
<1>2. /\ JobsTyped' /\ Alone(j)
      /\ \/ stage'[j] = "answered" /\ reply'[j] = a /\ asks'[j] = asks[j]
         \/ stage'[j] = "idle"
  BY <1>1, AnswerEffect
<1>3. /\ LocksOwn(j) /\ NumbersOwn(j)
      /\ \A t \in Tables : lock'[t] # j /\ (lock'[t] # None => lock'[t] = lock[t])
  BY <1>1, EndEffect
<1>4. JobOK(j)'
  BY <1>2 DEF JobOK, Holding, Existing
<1>5. \A i \in Jobs : JobOK(i)'
  BY <1>2, <1>3, <1>4, OthersKeep
<1>6. LockHeld'
  BY <1>2, <1>3, LeftHeld
<1>7. GatewayTypeOK'
  BY <1>2, <1>3 DEF GatewayTypeOK, JobsTyped, LocksOwn, NumbersOwn, Answers
<1> QED BY <1>5, <1>6, <1>7 DEF GatewayInvariant

\* A draft that is there already.
LEMMA RepeatStep ==
    ASSUME GatewayInvariant, NEW j \in Jobs, Repeat(j)
    PROVE  GatewayInvariant'
<1>1. PICK d \in Existing(asks[j].ref) :
         Answer(j, IF d.ref \in Marked /\ d.body # asks[j].body THEN Failed ELSE Ok(d.no))
  BY DEF Repeat
<1> DEFINE a == IF d.ref \in Marked /\ d.body # asks[j].body THEN Failed ELSE Ok(d.no)
<1>2. d \in drafts /\ d.ref = asks[j].ref /\ d.no \in 0 .. MaxNo
  BY GatewayAssumption DEF Existing, GatewayInvariant, GatewayTypeOK
<1>3. a \in Answers
  BY <1>2, AnswerForms
<1>4. a.status = "ok" => d.no = a.no /\ (asks[j].ref \in Marked => d.body = asks[j].body)
  BY <1>2 DEF Ok, Failed
<1>5. drafts' = drafts /\ stage[j] # "idle" /\ EndTransaction(j)
  BY DEF Repeat
<1>6. WritesOwn(j) /\ NumbersDiffer' /\ OneEach'
  BY <1>5 DEF WritesOwn, GatewayInvariant, NumbersDiffer, OneEach
<1>7. drafts' \subseteq [ref : References, body : Bodies, no : 1 .. MaxNo]
  BY <1>5 DEF GatewayInvariant, GatewayTypeOK
<1>8. a.status = "ok" => \E e \in drafts' :
         e.ref = asks[j].ref /\ e.no = a.no /\ (asks[j].ref \in Marked => e.body = asks[j].body)
  BY <1>2, <1>4, <1>5
<1> HIDE DEF a
<1>9. Answer(j, a)
  BY <1>1 DEF a
<1> QED BY <1>3, <1>5, <1>6, <1>7, <1>8, <1>9, EndStep

\* A draft is written.
LEMMA WriteStep ==
    ASSUME GatewayInvariant, NEW j \in Jobs, Write(j)
    PROVE  GatewayInvariant'
<1> DEFINE new == [ref |-> asks[j].ref, body |-> asks[j].body, no |-> number[j]]
<1>1. JobsTyped /\ JobOK(j) /\ stage[j] = "numbered"
  BY TypeParts DEF GatewayInvariant, Write
<1>2. /\ lock[TableOf(j)] = j /\ number[j] \in 1 .. MaxNo /\ Existing(asks[j].ref) = {}
      /\ \A d \in In(TableOf(j)) : d.no < number[j]
  BY <1>1 DEF JobOK, Holding
<1>3. asks[j] \in Request /\ asks[j].ref \in References
  BY <1>1, TableTyped
<1>4. drafts' = drafts \cup {new} /\ EndTransaction(j)
  BY DEF Write
<1>5. new \in [ref : References, body : Bodies, no : 1 .. MaxNo]
  BY <1>2, <1>3 DEF Request
<1>6. drafts' \subseteq [ref : References, body : Bodies, no : 1 .. MaxNo]
  BY <1>4, <1>5 DEF GatewayInvariant, GatewayTypeOK
<1>7. WritesOwn(j)
  BY <1>2, <1>3, <1>4 DEF WritesOwn, TableOf
<1>8. \A d \in drafts : d.ref # new.ref /\ (Table[d.ref] = Table[new.ref] => d.no # new.no)
  <2> SUFFICES ASSUME NEW d \in drafts
               PROVE  d.ref # new.ref /\ (Table[d.ref] = Table[new.ref] => d.no # new.no)
    OBVIOUS
  <2>1. d.ref # asks[j].ref
    BY <1>2 DEF Existing
  <2>2. d.no \in 1 .. MaxNo
    BY DEF GatewayInvariant, GatewayTypeOK
  <2>3. Table[d.ref] = TableOf(j) => d.no < number[j]
    BY <1>2 DEF In
  <2> QED BY <1>2, <2>1, <2>2, <2>3, GatewayAssumption DEF TableOf
<1>9. NumbersDiffer' /\ OneEach'
  <2>1. NumbersDiffer /\ OneEach
    BY DEF GatewayInvariant
  <2> HIDE DEF new
  <2> QED BY <1>4, <1>8, <2>1 DEF NumbersDiffer, OneEach
<1>10. new \in drafts' /\ new.ref = asks[j].ref /\ new.no = number[j] /\ new.body = asks[j].body
  BY <1>4
<1>11. Ok(number[j]) \in Answers /\ Failed \in Answers
  BY <1>2, AnswerForms, GatewayAssumption
<1>12. Ok(number[j]).no = number[j] /\ Failed.status # "ok"
  BY DEF Ok, Failed
<1>13. \/ Answer(j, Ok(number[j])) \/ Answer(j, Failed)
  BY DEF Write
<1> HIDE DEF new
<1> QED BY <1>1, <1>4, <1>6, <1>7, <1>9, <1>10, <1>11, <1>12, <1>13, EndStep

\* A failure writes nothing.
LEMMA FailStep ==
    ASSUME GatewayInvariant, NEW j \in Jobs, Fail(j)
    PROVE  GatewayInvariant'
<1>1. drafts' = drafts /\ stage[j] # "idle" /\ EndTransaction(j) /\ Answer(j, Failed)
  BY DEF Fail, Holding
<1>2. WritesOwn(j) /\ NumbersDiffer' /\ OneEach'
  BY <1>1 DEF WritesOwn, GatewayInvariant, NumbersDiffer, OneEach
<1>3. drafts' \subseteq [ref : References, body : Bodies, no : 1 .. MaxNo]
  BY <1>1 DEF GatewayInvariant, GatewayTypeOK
<1>4. Failed \in Answers /\ Failed.status # "ok"
  BY AnswerForms DEF Failed
<1> QED BY <1>1, <1>2, <1>3, <1>4, EndStep

\* Oracle without drafts, and nobody at work.
LEMMA GatewayStart == GatewayInit => GatewayInvariant
<1> SUFFICES ASSUME GatewayInit PROVE GatewayInvariant
  OBVIOUS
<1>1. NoReply \in Answers
  BY GatewayAssumption DEF NoReply, Answers
<1>2. JobsTyped
  BY <1>1 DEF JobsTyped, GatewayInit, Stages
<1>3. GatewayTypeOK
  BY <1>2, GatewayAssumption, TypeParts DEF GatewayInit
<1>4. (\A j \in Jobs : JobOK(j)) /\ LockHeld
  BY NoneAssumption DEF GatewayInit, JobOK, LockHeld, Holding
<1>5. NumbersDiffer /\ OneEach
  BY DEF GatewayInit, NumbersDiffer, OneEach
<1> QED BY <1>3, <1>4, <1>5 DEF GatewayInvariant

\* Every step keeps the invariant.
LEMMA GatewayStep == GatewayInvariant /\ [GatewayNext]_gateway => GatewayInvariant'
<1> SUFFICES ASSUME GatewayInvariant, [GatewayNext]_gateway PROVE GatewayInvariant'
  OBVIOUS
<1>1. ASSUME UNCHANGED gateway PROVE GatewayInvariant'
  BY <1>1 DEF gateway, GatewayInvariant, GatewayTypeOK, LockHeld, NumbersDiffer, OneEach, JobOK,
     Existing, In, TableOf
<1>2. ASSUME NEW j \in Jobs, Serve(j) PROVE GatewayInvariant'
  BY <1>2, LockStep, RepeatStep, NumberStep, WriteStep, FailStep DEF Serve
<1> QED BY <1>1, <1>2, CallerStep DEF GatewayNext

\* In every reachable state of the gateway, whoever holds a table is at work, a
\* number taken is new, and an answer "ok" names the reference's own draft.
THEOREM GatewayInvariance == GatewaySpec => []GatewayInvariant
BY GatewayStart, GatewayStep, PTL DEF GatewaySpec

\* Numbers of one table differ and no reference has two drafts, however many calls
\* are made at once (createDraft).
THEOREM NumbersDifferAlways == GatewaySpec => []NumbersDiffer
BY GatewayInvariance, PTL DEF GatewayInvariant

\* No failure and no lost caller leaves a table locked (createDraft).
THEOREM LockHeldAlways == GatewaySpec => []LockHeld
BY GatewayInvariance, PTL DEF GatewayInvariant

-----------------------------------------------------------------------------
(* Refinement.                                                             *)

\* What a marked reference was drafted with.
LEMMA DraftedIs ==
    ASSUME OneEach, NEW r \in Marked
    PROVE  /\ Existing(r) = {} => Drafted[r] = None
           /\ \A d \in Existing(r) : Drafted[r] = d.body
<1>1. Existing(r) = {} => Drafted[r] = None
  BY DEF Drafted
<1>2. ASSUME NEW d \in Existing(r) PROVE Drafted[r] = d.body
  <2>1. d \in drafts /\ Existing(r) = {d}
    BY <1>2 DEF Existing, OneEach
  <2>2. (CHOOSE e \in drafts : Existing(r) = {e}) = d
    BY <2>1
  <2> QED BY <1>2, <2>1, <2>2 DEF Drafted
<1> QED BY <1>1, <1>2

\* The same after a step.
LEMMA DraftedNext ==
    ASSUME OneEach', NEW r \in Marked
    PROVE  /\ Existing(r)' = {} => Drafted'[r] = None
           /\ \A d \in Existing(r)' : Drafted'[r] = d.body
<1>1. Existing(r)' = {} => Drafted'[r] = None
  BY DEF Drafted
<1>2. ASSUME NEW d \in Existing(r)' PROVE Drafted'[r] = d.body
  <2>1. d \in drafts' /\ Existing(r)' = {d}
    BY <1>2 DEF Existing, OneEach
  <2>2. (CHOOSE e \in drafts' : Existing(r)' = {e}) = d
    BY <2>1
  <2> QED BY <1>2, <2>1, <2>2 DEF Drafted
<1> QED BY <1>1, <1>2

\* A step of j moves j alone, and writes one draft of a new reference or none.
OneJob(j) ==
    /\ Alone(j)
    /\ \/ drafts' = drafts
       \/ \E d : /\ d \in [ref : References, body : Bodies, no : 1 .. MaxNo]
                 /\ Existing(d.ref) = {} /\ drafts' = drafts \cup {d}

\* Every step is one job's.
LEMMA StepIsOneJob == GatewayInvariant /\ GatewayNext => \E j \in Jobs : OneJob(j)
<1> SUFFICES ASSUME GatewayInvariant, NEW j \in Jobs,
                    (\E q \in Request : Post(j, q)) \/ Hear(j) \/ GiveUp(j) \/ Serve(j)
             PROVE  OneJob(j)
  BY DEF GatewayNext
<1>0. JobsTyped /\ JobOK(j)
  BY TypeParts DEF GatewayInvariant
<1>1. ASSUME NEW q \in Request, Post(j, q) PROVE OneJob(j)
  BY <1>0, <1>1 DEF Post, OneJob, Alone, JobsTyped
<1>2. ASSUME Hear(j) PROVE OneJob(j)
  BY <1>0, <1>2, ClearEffect DEF Hear, OneJob
<1>3. ASSUME GiveUp(j) PROVE OneJob(j)
  <2>1. CASE stage[j] = "answered"
    BY <1>0, <1>3, <2>1, ClearEffect DEF GiveUp, OneJob
  <2>2. CASE stage[j] # "answered"
    BY <1>0, <1>3, <2>2 DEF GiveUp, OneJob, Alone, JobsTyped
  <2> QED BY <2>1, <2>2
<1>4. ASSUME LockTable(j) PROVE OneJob(j)
  BY <1>0, <1>4, ProceedEffect DEF LockTable, OneJob, Holding
<1>5. ASSUME TakeNumber(j) PROVE OneJob(j)
  BY <1>0, <1>5, ProceedEffect DEF TakeNumber, OneJob, Holding
<1>6. ASSUME NEW a \in Answers, Answer(j, a), stage[j] # "idle" PROVE Alone(j)
  BY <1>0, <1>6, AnswerEffect
<1>7. ASSUME Repeat(j) PROVE OneJob(j)
  <2>1. PICK d \in Existing(asks[j].ref) :
           Answer(j, IF d.ref \in Marked /\ d.body # asks[j].body THEN Failed ELSE Ok(d.no))
    BY <1>7 DEF Repeat
  <2>2. d.no \in 0 .. MaxNo
    BY GatewayAssumption DEF Existing, GatewayInvariant, GatewayTypeOK
  <2>3. (IF d.ref \in Marked /\ d.body # asks[j].body THEN Failed ELSE Ok(d.no)) \in Answers
    BY <2>2, AnswerForms
  <2> QED BY <1>6, <1>7, <2>1, <2>3 DEF Repeat, OneJob
<1>8. ASSUME Write(j) PROVE OneJob(j)
  <2>1. number[j] \in 1 .. MaxNo /\ Existing(asks[j].ref) = {} /\ stage[j] = "numbered"
    BY <1>0, <1>8 DEF JobOK, Write
  <2>2. Alone(j)
    BY <1>6, <1>8, <2>1, AnswerForms, GatewayAssumption DEF Write
  <2>3. asks[j] \in Request
    BY <1>0, <2>1, TableTyped
  <2>4. /\ drafts' = drafts \cup {[ref |-> asks[j].ref, body |-> asks[j].body, no |-> number[j]]}
        /\ [ref |-> asks[j].ref, body |-> asks[j].body, no |-> number[j]]
              \in [ref : References, body : Bodies, no : 1 .. MaxNo]
    BY <1>8, <2>1, <2>3 DEF Write, Request
  <2> QED BY <2>1, <2>2, <2>4 DEF OneJob
<1>9. ASSUME Fail(j) PROVE OneJob(j)
  BY <1>6, <1>9, AnswerForms DEF Fail, OneJob, Holding
<1> QED BY <1>1, <1>2, <1>3, <1>4, <1>5, <1>7, <1>8, <1>9 DEF Serve

\* What is confirmed is drafted.
LEMMA ConfirmedIsDrafted ==
    ASSUME GatewayInvariant', NEW j \in Jobs
    PROVE  /\ Confirmed'[j] \in (Marked \X Bodies) \cup {None}
           /\ Confirmed'[j] # None => Drafted'[Confirmed'[j][1]] = Confirmed'[j][2]
<1>1. CASE ~(stage'[j] = "answered" /\ reply'[j].status = "ok" /\ asks'[j].ref \in Marked)
  BY <1>1 DEF Confirmed
<1>2. CASE stage'[j] = "answered" /\ reply'[j].status = "ok" /\ asks'[j].ref \in Marked
  <2>1. Confirmed'[j] = <<asks'[j].ref, asks'[j].body>>
    BY <1>2 DEF Confirmed
  <2>2. asks'[j] \in Request
    BY <1>2 DEF GatewayInvariant, GatewayTypeOK
  <2>3. JobOK(j)'
    BY DEF GatewayInvariant
  <2>4. PICK d \in drafts' : d.ref = asks'[j].ref /\ d.body = asks'[j].body
    BY <1>2, <2>3 DEF JobOK, Existing
  <2>5. PICK r \in Marked : r = asks'[j].ref
    BY <1>2
  <2>6. Drafted'[r] = d.body
    BY <2>4, <2>5, DraftedNext DEF GatewayInvariant, Existing
  <2> QED BY <1>2, <2>1, <2>2, <2>4, <2>5, <2>6 DEF Request
<1> QED BY <1>1, <1>2

\* A step of one job is a step of ExactlyOnce.
LEMMA JobRefines ==
    ASSUME GatewayInvariant, GatewayInvariant', NEW j \in Jobs, OneJob(j)
    PROVE  MarkedOnce!Next
<1>1. Confirmed' = [Confirmed EXCEPT ![j] = Confirmed'[j]]
  BY DEF Confirmed, OneJob, Alone
<1>2. MarkedOnce!Tell(j, Confirmed'[j])
  BY <1>1, ConfirmedIsDrafted DEF MarkedOnce!Tell
<1>3. \E c \in Jobs, t \in (Marked \X Bodies) \cup {None} : MarkedOnce!Tell(c, t)
  BY <1>2, ConfirmedIsDrafted
<1>4. CASE drafts' = drafts
  <2>1. Drafted' = Drafted
    BY <1>4 DEF Drafted, Existing
  <2> QED BY <1>3, <2>1 DEF MarkedOnce!Next
<1>5. ASSUME NEW d \in [ref : References, body : Bodies, no : 1 .. MaxNo],
             Existing(d.ref) = {}, drafts' = drafts \cup {d}
      PROVE  MarkedOnce!Next
  <2>1. OneEach /\ OneEach'
    BY DEF GatewayInvariant
  <2>2. \A r \in Marked \ {d.ref} : Existing(r)' = Existing(r)
    BY <1>5 DEF Existing
  <2>3. \A r \in Marked \ {d.ref} : Drafted'[r] = Drafted[r]
    <3> SUFFICES ASSUME NEW r \in Marked \ {d.ref} PROVE Drafted'[r] = Drafted[r]
      OBVIOUS
    <3>1. CASE Existing(r) = {}
      BY <2>1, <2>2, <3>1, DraftedIs, DraftedNext
    <3>2. CASE Existing(r) # {}
      <4>1. PICK e \in Existing(r) : TRUE
        BY <3>2
      <4> QED BY <2>1, <2>2, <4>1, DraftedIs, DraftedNext
    <3> QED BY <3>1, <3>2
  <2>4. CASE d.ref \in Marked
    <3>1. Drafted[d.ref] = None
      BY <1>5, <2>1, <2>4, DraftedIs
    <3>2. d \in Existing(d.ref)'
      BY <1>5 DEF Existing
    <3>3. Drafted'[d.ref] = d.body
      BY <2>1, <2>4, <3>2, DraftedNext
    <3>4. Drafted' = [Drafted EXCEPT ![d.ref] = d.body]
      BY <2>3, <2>4, <3>3 DEF Drafted
    <3>5. MarkedOnce!Apply(d.ref, d.body)
      BY <3>1, <3>4 DEF MarkedOnce!Apply
    <3> QED BY <1>3, <2>4, <3>5 DEF MarkedOnce!Next
  <2>5. CASE d.ref \notin Marked
    <3>1. Drafted' = Drafted
      BY <2>3, <2>5 DEF Drafted
    <3> QED BY <1>3, <3>1 DEF MarkedOnce!Next
  <2> QED BY <2>4, <2>5
<1> QED BY <1>4, <1>5 DEF OneJob

\* Quotations and sales orders implement ExactlyOnce: one draft for a reference,
\* confirmed only to whoever sent that very content.
THEOREM MarkedImplementsOnce == GatewaySpec => ImplementsOnce
<1>1. GatewayInit => MarkedOnce!Init
  <2> SUFFICES ASSUME GatewayInit PROVE MarkedOnce!Init
    OBVIOUS
  <2>1. Drafted = [r \in Marked |-> None]
    BY DEF GatewayInit, Drafted, Existing
  <2>2. Confirmed = [j \in Jobs |-> None]
    BY DEF GatewayInit, Confirmed
  <2> QED BY <2>1, <2>2 DEF MarkedOnce!Init
<1>2. GatewayInvariant /\ GatewayInvariant' /\ [GatewayNext]_gateway => [MarkedOnce!Next]_(MarkedOnce!vars)
  <2> SUFFICES ASSUME GatewayInvariant, GatewayInvariant', [GatewayNext]_gateway
               PROVE  [MarkedOnce!Next]_(MarkedOnce!vars)
    OBVIOUS
  <2>1. CASE GatewayNext
    BY <2>1, StepIsOneJob, JobRefines
  <2>2. CASE UNCHANGED gateway
    BY <2>2 DEF gateway, MarkedOnce!vars, Drafted, Confirmed, Existing
  <2> QED BY <2>1, <2>2
<1> QED BY <1>1, <1>2, GatewayInvariance, PTL DEF GatewaySpec, ImplementsOnce, MarkedOnce!Spec
=============================================================================
