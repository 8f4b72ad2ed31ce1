----------------------------- MODULE AsyncQueue -----------------------------
(***************************************************************************)
(* pkg/metadata/async_queue.go: a buffered Go channel of tasks drained by  *)
(* a fixed pool of worker goroutines.                                      *)
(*                                                                         *)
(* A worker is Ready (between two receives), Parked (blocked in a receive  *)
(* on the empty channel), Exited (its range loop ended after Close) or     *)
(* holds the task it is processing.  A send hands its task straight to a   *)
(* parked receiver when there is one, which is what makes an unbuffered    *)
(* queue (QueueSize = 0) work at all.                                      *)
(***************************************************************************)
EXTENDS Naturals, FiniteSets, Sequences

CONSTANTS Task, Worker, QueueSize,
          Ready, Parked, Exited   \* worker states that are not tasks

ASSUME QueueAssumption ==
    /\ QueueSize \in Nat
    /\ IsFiniteSet(Worker)
    /\ {Ready, Parked, Exited} \cap Task = {}
    /\ Ready # Parked /\ Ready # Exited /\ Parked # Exited

VARIABLES taskChan,   \* the channel's buffer, oldest task first
          worker,     \* what each worker goroutine is doing
          closed,     \* Close has been called
          outcome     \* what has become of each task

vars == <<taskChan, worker, closed, outcome>>

Waiting == {w \in Worker : worker[w] = Parked}

\* A full buffer for a non-blocking send: no room, and nobody to hand over to.
Full == Waiting = {} /\ Len(taskChan) >= QueueSize

TakenIn(t) == outcome' = [outcome EXCEPT ![t] = "accepted"]

-----------------------------------------------------------------------------
\* NewAsyncQueue: an empty channel, every worker just started.
Init ==
    /\ taskChan = <<>>
    /\ worker = [w \in Worker |-> Ready]
    /\ closed = FALSE
    /\ outcome = [t \in Task |-> "new"]

\* Dispatch, the send case, when a worker is blocked in its receive.
HandOver(t) ==
    /\ outcome[t] = "new"
    /\ ~closed
    /\ \E w \in Waiting : worker' = [worker EXCEPT ![w] = t]
    /\ TakenIn(t)
    /\ UNCHANGED <<taskChan, closed>>

\* Mutant: a buffer that takes one task too many.
EnqueueBeyond(t) ==
    /\ outcome[t] = "new" /\ ~closed /\ Waiting = {}
    /\ Len(taskChan) <= QueueSize
    /\ taskChan' = Append(taskChan, t)
    /\ TakenIn(t)
    /\ UNCHANGED <<worker, closed>>

\* Dispatch, the send case, into the buffer.
Enqueue(t) ==
    /\ outcome[t] = "new"
    /\ ~closed
    /\ Waiting = {}
    /\ Len(taskChan) < QueueSize
    /\ taskChan' = Append(taskChan, t)
    /\ TakenIn(t)
    /\ UNCHANGED <<worker, closed>>

\* Mutant: the queue calls itself full while it has room for one more task.
DropEarly(t) ==
    /\ outcome[t] = "new" /\ ~closed /\ Waiting = {}
    /\ Len(taskChan) + 1 >= QueueSize
    /\ outcome' = [outcome EXCEPT ![t] = "dropped"]
    /\ UNCHANGED <<taskChan, worker, closed>>

\* Dispatch, the default case: the task is lost and the caller gets an error.
DropTask(t) ==
    /\ outcome[t] = "new"
    /\ ~closed
    /\ Full
    /\ outcome' = [outcome EXCEPT ![t] = "dropped"]
    /\ UNCHANGED <<taskChan, worker, closed>>

\* Dispatch on a closed channel panics in the calling goroutine.
DispatchClosed(t) ==
    /\ outcome[t] = "new"
    /\ closed
    /\ outcome' = [outcome EXCEPT ![t] = "panicked"]
    /\ UNCHANGED <<taskChan, worker, closed>>

Dispatch(t) == HandOver(t) \/ Enqueue(t) \/ DropTask(t) \/ DispatchClosed(t)

-----------------------------------------------------------------------------
\* Mutant: the worker looks at the oldest task without taking it out.
ReceiveCopy(w) ==
    /\ worker[w] = Ready /\ taskChan # <<>>
    /\ worker' = [worker EXCEPT ![w] = Head(taskChan)]
    /\ UNCHANGED <<taskChan, closed, outcome>>

\* Mutant: a stack instead of a queue.
ReceiveNewest(w) ==
    /\ worker[w] = Ready /\ taskChan # <<>>
    /\ worker' = [worker EXCEPT ![w] = taskChan[Len(taskChan)]]
    /\ taskChan' = SubSeq(taskChan, 1, Len(taskChan) - 1)
    /\ UNCHANGED <<closed, outcome>>

\* worker: `range q.taskChan` receives the oldest task.
Receive(w) ==
    /\ worker[w] = Ready
    /\ taskChan # <<>>
    /\ worker' = [worker EXCEPT ![w] = Head(taskChan)]
    /\ taskChan' = Tail(taskChan)
    /\ UNCHANGED <<closed, outcome>>

\* Mutant: the worker goes to sleep without a look at the buffer.
ParkBlindly(w) ==
    /\ worker[w] = Ready /\ ~closed
    /\ worker' = [worker EXCEPT ![w] = Parked]
    /\ UNCHANGED <<taskChan, closed, outcome>>

\* worker: the open channel is empty, so the receive blocks.
Park(w) ==
    /\ worker[w] = Ready
    /\ taskChan = <<>>
    /\ ~closed
    /\ worker' = [worker EXCEPT ![w] = Parked]
    /\ UNCHANGED <<taskChan, closed, outcome>>

\* worker: the closed channel is drained, so the range loop ends.
Exit(w) ==
    /\ worker[w] = Ready
    /\ taskChan = <<>>
    /\ closed
    /\ worker' = [worker EXCEPT ![w] = Exited]
    /\ UNCHANGED <<taskChan, closed, outcome>>

\* processTask: the handler returns within the task's timeout, with an error
\* or without; either way the task is done with and the worker loops.
Finish(w, result) ==
    /\ worker[w] \in Task
    /\ outcome' = [outcome EXCEPT ![worker[w]] = result]
    /\ worker' = [worker EXCEPT ![w] = Ready]
    /\ UNCHANGED <<taskChan, closed>>

\* Close: wakes every blocked receiver, which then finds the channel closed.
Close ==
    /\ ~closed
    /\ closed' = TRUE
    /\ worker' = [w \in Worker |-> IF worker[w] = Parked THEN Ready ELSE worker[w]]
    /\ UNCHANGED <<taskChan, outcome>>

WorkerStep(w) ==
    \/ Receive(w)
    \/ Park(w)
    \/ Exit(w)
    \/ \E result \in {"ok", "failed"} : Finish(w, result)

Next ==
    \/ \E t \in Task : Dispatch(t)
    \/ \E w \in Worker : WorkerStep(w)
    \/ Close

\* Goroutines are scheduled fairly, and the handler always returns because
\* its context times out.
Fairness == \A w \in Worker : WF_vars(WorkerStep(w))

Spec == Init /\ [][Next]_vars /\ Fairness

-----------------------------------------------------------------------------
Statuses == {"new", "accepted", "dropped", "ok", "failed", "panicked"}

\* The types of the queue's state, and the bound of the channel's buffer.
TypeOK ==
    /\ taskChan \in Seq(Task)
    /\ Len(taskChan) <= QueueSize
    /\ worker \in [Worker -> Task \cup {Ready, Parked, Exited}]
    /\ closed \in BOOLEAN
    /\ outcome \in [Task -> Statuses]

Holds(w, t) == worker[w] = t
Buffered(i, t) == i \in 1..Len(taskChan) /\ taskChan[i] = t

\* An accepted task that has not been handled is in exactly one place: once
\* in the buffer or with one worker.  Nothing else is anywhere, so no task is
\* lost and none is handled twice, although the channel is shared by all the
\* workers and a send may bypass its buffer.
HeldOnce ==
    \A t \in Task :
        /\ outcome[t] = "accepted" <=>
               (\E w \in Worker : Holds(w, t)) \/ (\E i \in 1..Len(taskChan) : Buffered(i, t))
        /\ \A v, w \in Worker : Holds(v, t) /\ Holds(w, t) => v = w
        /\ \A i, j \in 1..Len(taskChan) : Buffered(i, t) /\ Buffered(j, t) => i = j
        /\ \A w \in Worker, i \in 1..Len(taskChan) : ~(Holds(w, t) /\ Buffered(i, t))

\* No worker sleeps while a task waits in the buffer, and none has left its
\* loop before the closed channel was drained.
NoLostWakeup ==
    \A w \in Worker :
        /\ worker[w] = Parked => taskChan = <<>> /\ ~closed
        /\ worker[w] = Exited => taskChan = <<>> /\ closed

-----------------------------------------------------------------------------
Promise == INSTANCE TaskDelivery

\* The channel and its workers keep the promise made to the callers: bounded
\* capacity, a drop only when a buffer full of tasks is pending, each accepted
\* task handled once, and eventually.
DeliverySpec == Promise!Spec
=============================================================================
