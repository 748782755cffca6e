--------------------------- MODULE ContactAttempts ---------------------------
(***************************************************************************)
(* Attempts to reach a customer.  A screen that opens the telephone or a   *)
(* messenger registers the attempt, at once or from the phone's queue, and *)
(* again if no answer came.  Ten minutes later the server writes a         *)
(* follow-up by itself, unless its author has recorded anything since.     *)
(*                                                                         *)
(* One customer.  What an author has recorded (follow-ups, tasks and their *)
(* changes, promises) is a count.                                          *)
(***************************************************************************)
EXTENDS Naturals

CONSTANTS Touches,    \* operation ids of attempts
          Authors, AuthorOf,
          Collectors, Unassigned,
          Registrars, \* requests at the same time
          Processors, \* server processes, each with a timer
          MaxRecords, \* bound on what is recorded beside the attempts
          MaxTransfers \* bound on the changes of the assignment

ASSUME ContactAssumption ==
    AuthorOf \in [Touches -> Authors] /\ Unassigned \notin Collectors

VARIABLES attempt,    \* contact_attempts.status
          since,      \* what its author had recorded when it was made
          baseline,   \* and when it was registered
          forCollector, \* contact_attempts.collector_id
          registering, \* what each request has read
          processing, \* and what each process has
          recorded,   \* what each author has recorded
          automatic,  \* follow-ups the server wrote, by attempt
          holder,     \* the collector the customer is assigned to
          byHand, transfers

contactVars == <<attempt, since, baseline, forCollector, registering, processing, recorded,
                 automatic, holder, byHand, transfers>>

NothingRead == [phase |-> "rest"]

ContactInit ==
    /\ attempt = [a \in Touches |-> "none"]
    /\ since = [a \in Touches |-> 0] /\ baseline = [a \in Touches |-> 0]
    /\ forCollector = [a \in Touches |-> Unassigned]
    /\ registering = [q \in Registrars |-> NothingRead]
    /\ processing = [p \in Processors |-> NothingRead]
    /\ recorded = [u \in Authors |-> 0]
    /\ automatic = [a \in Touches |-> 0]
    /\ holder \in Collectors \cup {Unassigned}
    /\ byHand = 0 /\ transfers = 0

\* A task for a collector is among the records of whoever has to do with it.
MoreRecords(authors) == [u \in Authors |-> IF u \in authors THEN recorded[u] + 1 ELSE recorded[u]]

-----------------------------------------------------------------------------
(* Registering.                                                            *)

\* The screen notes the time.
Touch(a) ==
    /\ attempt[a] = "none" /\ attempt' = [attempt EXCEPT ![a] = "made"]
    /\ since' = [since EXCEPT ![a] = recorded[AuthorOf[a]]]
    /\ UNCHANGED <<baseline, forCollector, registering, processing, recorded, automatic, holder, byHand, transfers>>

Pending(u) == {a \in Touches : AuthorOf[a] = u /\ attempt[a] = "pending"}

\* Neither the attempt nor another of its author waits already.
Fresh(a) == attempt[a] = "made" /\ Pending(AuthorOf[a]) = {}

\* An advisory lock of the author and the customer covers the reads and the row.
LockFree(u) == \A q \in Registrars : registering[q] # NothingRead => AuthorOf[registering[q].of] # u

\* What was there before is answered otherwise.  A record made since the attempt
\* settles it at once; one that only changed does not.
RegisterRead(q, a) ==
    /\ registering[q] = NothingRead /\ LockFree(AuthorOf[a]) /\ Fresh(a)
    /\ \E verdict \in IF recorded[AuthorOf[a]] = since[a] THEN {"pending"} ELSE {"pending", "suppressed"} :
          registering' = [registering EXCEPT ![q] =
              [phase |-> "read", of |-> a, verdict |-> verdict, seen |-> recorded[AuthorOf[a]], collector |-> holder]]
    /\ UNCHANGED <<attempt, since, baseline, forCollector, processing, recorded, automatic, holder, byHand, transfers>>

RegisterCommit(q) ==
    /\ registering[q] # NothingRead
    /\ LET r == registering[q] IN
         /\ attempt' = [attempt EXCEPT ![r.of] = r.verdict]
         /\ baseline' = [baseline EXCEPT ![r.of] = r.seen]
         /\ forCollector' = [forCollector EXCEPT ![r.of] = r.collector]
    /\ registering' = [registering EXCEPT ![q] = NothingRead]
    /\ UNCHANGED <<since, processing, recorded, automatic, holder, byHand, transfers>>

\* To be sent again.
RegisterFails(q) ==
    /\ registering[q] # NothingRead
    /\ registering' = [registering EXCEPT ![q] = NothingRead]
    /\ UNCHANGED <<attempt, since, baseline, forCollector, processing, recorded, automatic, holder, byHand, transfers>>

-----------------------------------------------------------------------------
(* Ten minutes later.                                                      *)

\* Mutant of Unlocked: the row is selected without FOR UPDATE.
NeverLocked(a) == TRUE

\* SKIP LOCKED passes over what another process is at.
Unlocked(a) == \A p \in Processors : processing[p] # NothingRead => processing[p].of # a

\* The author may have been deactivated.  A former collector gets nothing.
Silent(a) ==
    /\ recorded[AuthorOf[a]] = baseline[a]
    /\ forCollector[a] \in {Unassigned, holder}

ProcessRead(p, a) ==
    /\ processing[p] = NothingRead /\ attempt[a] = "pending" /\ Unlocked(a)
    /\ \E verdict \in IF Silent(a) THEN {"completed", "suppressed"} ELSE {"suppressed"} :
          processing' = [processing EXCEPT ![p] = [phase |-> "read", of |-> a, verdict |-> verdict]]
    /\ UNCHANGED <<attempt, since, baseline, forCollector, registering, recorded, automatic, holder, byHand, transfers>>

\* The follow-up, a task for the collector unless there is one, and the row's status.
ProcessCommit(p) ==
    /\ processing[p] # NothingRead
    /\ LET a == processing[p].of
           completes == processing[p].verdict = "completed"
       IN /\ attempt' = [attempt EXCEPT ![a] = processing[p].verdict]
          /\ automatic' = [automatic EXCEPT ![a] = IF completes THEN @ + 1 ELSE @]
          /\ IF completes
             THEN \E authors \in SUBSET Authors :
                      AuthorOf[a] \in authors /\ recorded' = MoreRecords(authors)
             ELSE UNCHANGED recorded
    /\ processing' = [processing EXCEPT ![p] = NothingRead]
    /\ UNCHANGED <<since, baseline, forCollector, registering, holder, byHand, transfers>>

\* An error, or the process stops: everything is rolled back, and the row retained.
ProcessFails(p) ==
    /\ processing[p] # NothingRead
    /\ processing' = [processing EXCEPT ![p] = NothingRead]
    /\ UNCHANGED <<attempt, since, baseline, forCollector, registering, recorded, automatic, holder, byHand, transfers>>

-----------------------------------------------------------------------------
(* What happens around them.                                               *)

\* A follow-up with its task, a task done, a promise.
Records(authors) ==
    /\ byHand < MaxRecords /\ byHand' = byHand + 1
    /\ authors # {} /\ recorded' = MoreRecords(authors)
    /\ UNCHANGED <<attempt, since, baseline, forCollector, registering, processing, automatic, holder, transfers>>

\* Open tasks go with the customer.
Transfer(c) ==
    /\ transfers < MaxTransfers /\ transfers' = transfers + 1
    /\ c # holder /\ holder' = c
    /\ \E authors \in SUBSET Authors : recorded' = MoreRecords(authors)
    /\ UNCHANGED <<attempt, since, baseline, forCollector, registering, processing, automatic, byHand>>

ContactNext ==
    \/ \E a \in Touches : Touch(a)
    \/ \E q \in Registrars : RegisterCommit(q) \/ RegisterFails(q) \/ \E a \in Touches : RegisterRead(q, a)
    \/ \E p \in Processors : ProcessCommit(p) \/ ProcessFails(p) \/ \E a \in Touches : ProcessRead(p, a)
    \/ \E authors \in SUBSET Authors : Records(authors)
    \/ \E c \in Collectors : Transfer(c)

ContactSpec == ContactInit /\ [][ContactNext]_contactVars

-----------------------------------------------------------------------------
(* Properties.                                                             *)

\* However often an attempt is sent, however many processes look for what is due and
\* whatever of theirs fails, an attempt called completed has written one follow-up
\* and any other none, and an author has at most one attempt waiting for the customer
\* (ContactAttemptService.register, process).
AttemptAnsweredOnce ==
    /\ \A a \in Touches : automatic[a] = IF attempt[a] = "completed" THEN 1 ELSE 0
    /\ \A a, b \in Touches :
          (AuthorOf[a] = AuthorOf[b] /\ attempt[a] = "pending" /\ attempt[b] = "pending") => a = b
=============================================================================
