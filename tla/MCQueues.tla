------------------------------ MODULE MCQueues ------------------------------
(***************************************************************************)
(* What waits in the phone's queue, in the push outbox and in the print    *)
(* queue.  The three share nothing but the server, so a behaviour runs one *)
(* of them and leaves the others at rest.                                  *)
(***************************************************************************)
EXTENDS OfflineQueue, PushOutbox, PrintJobs

CONSTANTS o1, o2, c1, c2

VARIABLE running

EndPoints == (Forms \cup Posts \cup Bookings) \X {"create", "submit"}
Guards == [k \in EndPoints |->
    CASE k[2] = "submit" -> "submit"
      [] k[1] \in Forms -> "transfer"
      [] k[1] \in Posts -> "interceptor"
      [] OTHER -> "reservation"]

QueuesInit ==
    /\ running \in {"phone", "push", "print"}
    /\ QueueInit /\ OutboxInit /\ PrintInit

QueuesNext ==
    \/ running = "phone" /\ QueueNext /\ UNCHANGED <<running, pushVars, printVars>>
    \/ running = "push" /\ OutboxNext /\ UNCHANGED <<running, queueVars, printVars>>
    \/ running = "print" /\ PrintNext /\ UNCHANGED <<running, queueVars, pushVars>>

\* What is not running has nothing enabled but the outbox's interval.
QueuesSpec ==
    /\ QueuesInit /\ [][QueuesNext]_<<running, queueVars, pushVars, printVars>>
    /\ Fairness /\ TimeFair
    /\ \A p \in Processes : WF_pushVars(running = "push" /\ Dispatch(p))
=============================================================================
