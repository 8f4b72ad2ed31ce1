---------------------------- MODULE TaskDelivery ----------------------------
(***************************************************************************)
(* What the asynchronous task queue of pkg/metadata promises its callers,  *)
(* without its channel and its worker goroutines.  A task is dispatched    *)
(* once; the caller learns at once whether it was accepted or dropped      *)
(* ("queue is full"); an accepted task is handled exactly once and the     *)
(* caller never learns how that ended.                                     *)
(***************************************************************************)
EXTENDS Naturals, FiniteSets

CONSTANTS Task,        \* the tasks that callers may dispatch
          Worker,      \* the worker goroutines
          QueueSize    \* the buffer of the task channel

VARIABLE outcome       \* what has become of each task

Fate == {"new", "accepted", "dropped", "ok", "failed", "panicked"}

Pending == {t \in Task : outcome[t] = "accepted"}

\* A task is taken in only while the buffer and the workers can hold it.
Accept(t) ==
    /\ outcome[t] = "new"
    /\ Cardinality(Pending) < QueueSize + Cardinality(Worker)
    /\ outcome' = [outcome EXCEPT ![t] = "accepted"]

\* A task is refused only when at least a buffer full of tasks is pending.
Drop(t) ==
    /\ outcome[t] = "new"
    /\ Cardinality(Pending) >= QueueSize
    /\ outcome' = [outcome EXCEPT ![t] = "dropped"]

\* Sending on a closed channel panics in the caller.
DispatchAfterClose(t) ==
    /\ outcome[t] = "new"
    /\ outcome' = [outcome EXCEPT ![t] = "panicked"]

\* Dispatch on an open queue, as its callers see it.
Deliver(t) == Accept(t) \/ Drop(t)

\* The handler returns, with an error or without; there is no retry.
Handle(t, result) ==
    /\ outcome[t] = "accepted"
    /\ outcome' = [outcome EXCEPT ![t] = result]

Results == {"ok", "failed"}

Init == outcome = [t \in Task |-> "new"]

Next ==
    \E t \in Task :
        \/ Accept(t)
        \/ Drop(t)
        \/ DispatchAfterClose(t)
        \/ \E result \in Results : Handle(t, result)

Spec ==
    /\ Init
    /\ [][Next]_outcome
    /\ \A t \in Task : WF_outcome(\E result \in Results : Handle(t, result))
=============================================================================
