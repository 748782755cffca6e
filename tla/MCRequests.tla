----------------------------- MODULE MCRequests -----------------------------
(***************************************************************************)
(* Requests that meet.  A behaviour is the phone's queue with its screens  *)
(* and the server behind them, or the server alone under any calls, or the *)
(* closing of a customer's tasks, or the attempts to reach one.  The last  *)
(* two share nothing with the others.                                      *)
(***************************************************************************)
EXTENDS OfflineQueue, SettledTasks, ContactAttempts, TLC

CONSTANTS o1, k1, k2, c1, c2,   \* a form, keys and calls
          t1, t2, t3, yer, sar, \* tasks of two currencies
          a1, a2                \* attempts

VARIABLE running

\* The end points of one transfer, and one of each other kind.
EndPoints == <<o1, "create">> :> "transfer" @@ <<o1, "submit">> :> "submit"
                 @@ k1 :> "interceptor" @@ k2 :> "reservation"
AllKeys == DOMAIN EndPoints

CurrencyOfTask == [t \in FinanceTasks |-> IF t = t2 THEN sar ELSE yer]
OneAuthor == [a \in Touches |-> "collector"]

SymmetryCalls == Permutations(Calls) \cup Permutations(Touches)

RequestsInit ==
    /\ running \in {"phone", "calls", "tasks", "attempts"}
    /\ QueueInit
    /\ SettledInit /\ (running # "tasks" => \A c \in Currencies : debt[c] = 0)
    /\ ContactInit /\ (running # "attempts" => holder = Unassigned)

\* One body is enough for the phone's part, two effects for the server's.  A review
\* selects overdue tasks; of transactions at rest, and of plans, the first is taken.
RequestsNext ==
    /\ UNCHANGED running
    /\ \/ running = "phone" /\ QueueNext /\ wanted'[o1] \in {None, 1}
       \/ running = "calls" /\ Next /\ Len(log') <= 2 /\ UNCHANGED <<phone, faults>>
       \/ running \notin {"phone", "calls"} /\ UNCHANGED queueVars
    /\ \/ /\ running = "tasks" /\ SettledNext
          /\ \A r \in Reviews : plan'[r].selection \subseteq Overdue
          /\ applying["x2"] = NotApplying /\ applying'["x2"] # NotApplying => applying["x1"] # NotApplying
          /\ plan["r2"] = NoPlan /\ plan'["r2"] # NoPlan => plan["r1"] # NoPlan
       \/ running # "tasks" /\ UNCHANGED settledVars
    /\ \/ running = "attempts" /\ ContactNext
       \/ running # "attempts" /\ UNCHANGED contactVars

RequestsSpec == RequestsInit /\ [][RequestsNext]_<<running, queueVars, settledVars, contactVars>>
=============================================================================
