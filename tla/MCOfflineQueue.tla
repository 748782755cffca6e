--------------------------- MODULE MCOfflineQueue ---------------------------
(* Instances of OfflineQueue for TLC. *)
EXTENDS OfflineQueue, TLC

CONSTANTS o1, o2, c1, c2, c3

EndPoints == (Forms \cup Posts \cup Bookings) \X {"create", "submit"}
Guards == [k \in EndPoints |->
    CASE k[2] = "submit" -> "submit"
      [] k[1] \in Forms -> "transfer"
      [] k[1] \in Posts -> "interceptor"
      [] OTHER -> "reservation"]

SymmetryCalls == Permutations(Calls)
=============================================================================
