---------------------------- MODULE ExactlyOnce ----------------------------
(***************************************************************************)
(* What a key that makes a request idempotent promises its clients: the    *)
(* request is applied at most once, and a client is only told "yes" for    *)
(* the very request that was applied.                                      *)
(***************************************************************************)
CONSTANTS Keys, Bodies, Clients, None

VARIABLES done, \* what was applied under each key
          told  \* the request each client is being told was applied

vars == <<done, told>>

TypeOK == /\ done \in [Keys -> Bodies \cup {None}]
          /\ told \in [Clients -> (Keys \X Bodies) \cup {None}]

Init == /\ done = [k \in Keys |-> None]
        /\ told = [c \in Clients |-> None]

Apply(k, b) == done[k] = None /\ done' = [done EXCEPT ![k] = b]

\* A client hears of what was applied, perhaps in this very step, or nothing.
Tell(c, t) == /\ t # None => done'[t[1]] = t[2]
              /\ told' = [told EXCEPT ![c] = t]

Next ==
    /\ UNCHANGED done \/ \E k \in Keys, b \in Bodies : Apply(k, b)
    /\ UNCHANGED told \/ \E c \in Clients, t \in (Keys \X Bodies) \cup {None} : Tell(c, t)

Spec == Init /\ [][Next]_vars
=============================================================================
