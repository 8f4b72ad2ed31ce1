----------------------------- MODULE LoadLease ------------------------------
(***************************************************************************)
(* What the filter owes its host: the load that a request puts on a host   *)
(* in Metadata-Center is a lease, taken once at most, given back once, and *)
(* only if it was taken.  There are two ways to lose it: the queue has no  *)
(* room for the task that gives it back, or a panic comes before it, which *)
(* costs all the leases when it ends the process.  Filter is shown to      *)
(* implement this, whatever Envoy does to the request in between.          *)
(***************************************************************************)
CONSTANT Request

VARIABLE lease     \* of each request

Init == lease = [r \in Request |-> "none"]

Become(r, from, to) ==
    /\ lease[r] = from
    /\ lease' = [lease EXCEPT ![r] = to]

Take(r) == Become(r, "none", "held")

GiveBack(r) == Become(r, "held", "returned")

Leak(r) == Become(r, "held", "leaked")

Crash ==
    lease' = [r \in Request |-> IF lease[r] = "held" THEN "leaked" ELSE lease[r]]

Next == (\E r \in Request : Take(r) \/ GiveBack(r) \/ Leak(r)) \/ Crash

\* No lease is held forever.
Spec ==
    /\ Init
    /\ [][Next]_lease
    /\ \A r \in Request : WF_lease(GiveBack(r) \/ Leak(r))
=============================================================================
