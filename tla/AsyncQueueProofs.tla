-------------------------- MODULE AsyncQueueProofs --------------------------
(***************************************************************************)
(* Proofs about the queue, for every number of tasks and workers and every *)
(* size of the buffer, the unbuffered queue included: it loses no task,    *)
(* duplicates none and leaves none behind with a sleeping worker; tasks    *)
(* are taken in the order in which they were accepted, and handled out of  *)
(* that order by less than the number of workers.                          *)
(***************************************************************************)
EXTENDS AsyncQueueOrder, FiniteSetTheorems, TLAPS

\* The inductive invariant: that a task is in one place is only preserved
\* together with the types and with parked workers seeing an empty buffer.
IInv == TypeOK /\ HeldOnce /\ NoLostWakeup

-----------------------------------------------------------------------------
\* A task can be handed to a worker only if no worker is in that state yet.
LEMMA StatesAreNoTasks ==
    ASSUME NEW t \in Task
    PROVE  t # Ready /\ t # Parked /\ t # Exited
  BY QueueAssumption

\* The empty queue with workers that have just started satisfies IInv.
LEMMA InitIInv == Init => IInv
  <1> SUFFICES ASSUME Init PROVE IInv
    OBVIOUS
  <1>1. TypeOK
    <2>1. taskChan \in Seq(Task) /\ Len(taskChan) = 0
      BY DEF Init
    <2>2. Len(taskChan) <= QueueSize
      BY <2>1, QueueAssumption
    <2>3. /\ worker \in [Worker -> Task \cup {Ready, Parked, Exited}]
          /\ closed \in BOOLEAN
          /\ outcome \in [Task -> Statuses]
      BY DEF Init, Statuses
    <2> QED BY <2>1, <2>2, <2>3 DEF TypeOK
  <1>2. HeldOnce
    BY StatesAreNoTasks DEF Init, HeldOnce, Holds, Buffered
  <1>3. NoLostWakeup
    BY QueueAssumption DEF Init, NoLostWakeup
  <1> QED BY <1>1, <1>2, <1>3 DEF IInv

\* Every disjunct of Dispatch preserves the types.
LEMMA DispatchTypes ==
    ASSUME IInv, NEW t \in Task, Dispatch(t)
    PROVE  TypeOK'
  <1> USE DEF IInv, TypeOK, Statuses
  <1>1. CASE HandOver(t)
    BY <1>1 DEF HandOver, TakenIn, Waiting
  <1>2. CASE Enqueue(t)
    <2>1. taskChan' \in Seq(Task) /\ Len(taskChan') = Len(taskChan) + 1
      BY <1>2 DEF Enqueue
    <2> QED BY <1>2, <2>1, QueueAssumption DEF Enqueue, TakenIn
  <1>3. CASE DropTask(t) BY <1>3 DEF DropTask
  <1>4. CASE DispatchClosed(t) BY <1>4 DEF DispatchClosed
  <1> QED BY <1>1, <1>2, <1>3, <1>4 DEF Dispatch

\* The steps of a worker preserve the types.
LEMMA WorkerTypes ==
    ASSUME IInv, NEW w \in Worker, WorkerStep(w)
    PROVE  TypeOK'
  <1> USE DEF IInv, TypeOK, Statuses
  <1>1. CASE Receive(w)
    <2>1. Head(taskChan) \in Task /\ taskChan' \in Seq(Task)
          /\ Len(taskChan') = Len(taskChan) - 1
      BY <1>1 DEF Receive
    <2> QED BY <1>1, <2>1, QueueAssumption DEF Receive
  <1>2. CASE Park(w) BY <1>2 DEF Park
  <1>3. CASE Exit(w) BY <1>3 DEF Exit
  <1>4. ASSUME NEW result \in {"ok", "failed"}, Finish(w, result) PROVE TypeOK'
    BY <1>4 DEF Finish
  <1> QED BY <1>1, <1>2, <1>3, <1>4 DEF WorkerStep

-----------------------------------------------------------------------------
\* A dispatched task is put into one place, and only when it was nowhere.
LEMMA DispatchHeldOnce ==
    ASSUME IInv, NEW t \in Task, Dispatch(t)
    PROVE  HeldOnce'
  <1> USE DEF IInv, TypeOK, HeldOnce, Holds, Buffered
  <1>0. /\ \A w \in Worker : worker[w] # t
        /\ \A i \in 1..Len(taskChan) : taskChan[i] # t
    BY DEF Dispatch, HandOver, Enqueue, DropTask, DispatchClosed
  <1>1. CASE HandOver(t)
    <2>1. PICK w \in Waiting : worker' = [worker EXCEPT ![w] = t]
      BY <1>1 DEF HandOver
    <2>2. worker[w] \notin Task
      BY <2>1, QueueAssumption DEF Waiting
    <2> QED BY <1>0, <1>1, <2>1, <2>2 DEF HandOver, TakenIn, Waiting
  <1>2. CASE Enqueue(t)
    <2>1. /\ Len(taskChan') = Len(taskChan) + 1
          /\ taskChan'[Len(taskChan) + 1] = t
          /\ \A i \in 1..Len(taskChan) : taskChan'[i] = taskChan[i]
          /\ Len(taskChan) \in Nat
      BY <1>2 DEF Enqueue
    <2>2. /\ worker' = worker /\ outcome' = [outcome EXCEPT ![t] = "accepted"]
          /\ 1..Len(taskChan') = 1..Len(taskChan) \cup {Len(taskChan) + 1}
          /\ Len(taskChan) + 1 \notin 1..Len(taskChan)
      BY <1>2, <2>1 DEF Enqueue, TakenIn
    <2> HIDE DEF TypeOK
    <2>3. outcome \in [Task -> Statuses] /\ taskChan \in Seq(Task)
      BY DEF TypeOK
    <2> QED BY <1>0, <2>1, <2>2, <2>3
  <1>3. CASE DropTask(t) BY <1>0, <1>3 DEF DropTask
  <1>4. CASE DispatchClosed(t) BY <1>0, <1>4 DEF DispatchClosed
  <1> QED BY <1>1, <1>2, <1>3, <1>4 DEF Dispatch

\* A received task moves from the buffer to the worker; a handled one leaves.
LEMMA WorkerHeldOnce ==
    ASSUME IInv, NEW w \in Worker, WorkerStep(w)
    PROVE  HeldOnce'
  <1> USE DEF IInv, TypeOK, HeldOnce, Holds, Buffered
  <1>1. CASE Receive(w)
    <2>1. /\ Len(taskChan) \in Nat \ {0}
          /\ Head(taskChan) = taskChan[1]
          /\ Len(taskChan') = Len(taskChan) - 1
          /\ \A i \in 1..Len(taskChan') : taskChan'[i] = taskChan[i + 1]
      BY <1>1 DEF Receive
    <2>2. /\ worker' = [worker EXCEPT ![w] = taskChan[1]]
          /\ worker[w] \notin Task /\ taskChan[1] \in Task
          /\ outcome' = outcome
      BY <1>1, <2>1, QueueAssumption DEF Receive
    <2> SUFFICES ASSUME NEW t \in Task
                 PROVE  /\ outcome[t] = "accepted" <=>
                               (\E v \in Worker : worker'[v] = t)
                               \/ (\E i \in 1..Len(taskChan') : taskChan'[i] = t)
                        /\ \A u, v \in Worker : worker'[u] = t /\ worker'[v] = t => u = v
                        /\ \A i, j \in 1..Len(taskChan') :
                               taskChan'[i] = t /\ taskChan'[j] = t => i = j
                        /\ \A v \in Worker, i \in 1..Len(taskChan') :
                               ~(worker'[v] = t /\ taskChan'[i] = t)
      BY <2>2
    <2>3. CASE t = taskChan[1]
      <3>1. \A v \in Worker : worker[v] # t
        BY <2>1, <2>3
      <3>2. \A i \in 2..Len(taskChan) : taskChan[i] # t
        BY <2>1, <2>3
      <3> QED BY <2>1, <2>2, <2>3, <3>1, <3>2
    <2>4. CASE t # taskChan[1]
      <3>1. \A v \in Worker : worker'[v] = t <=> worker[v] = t
        BY <2>2, <2>4
      <3>2. (\E i \in 1..Len(taskChan') : taskChan'[i] = t)
                <=> (\E i \in 1..Len(taskChan) : taskChan[i] = t)
        <4>1. ASSUME NEW i \in 1..Len(taskChan), taskChan[i] = t
              PROVE  \E j \in 1..Len(taskChan') : taskChan'[j] = t
          <5>1. i - 1 \in 1..Len(taskChan') /\ taskChan'[i - 1] = t
            BY <2>1, <2>4, <4>1
          <5> QED BY <5>1
        <4> QED BY <2>1, <4>1
      <3>3. \A i, j \in 1..Len(taskChan') :
                taskChan'[i] = t /\ taskChan'[j] = t => i = j
        <4> SUFFICES ASSUME NEW i \in 1..Len(taskChan'), NEW j \in 1..Len(taskChan'),
                            taskChan'[i] = t, taskChan'[j] = t
                     PROVE  i = j
          OBVIOUS
        <4>1. i + 1 \in 1..Len(taskChan) /\ j + 1 \in 1..Len(taskChan)
          BY <2>1
        <4>2. i + 1 = j + 1
          BY <2>1, <4>1
        <4> QED BY <4>2
      <3>4. \A v \in Worker, i \in 1..Len(taskChan') :
                ~(worker'[v] = t /\ taskChan'[i] = t)
        BY <2>1, <3>1
      <3> QED BY <3>1, <3>2, <3>3, <3>4
    <2> QED BY <2>3, <2>4
  <1>2. CASE Park(w)
    BY <1>2, StatesAreNoTasks DEF Park
  <1>3. CASE Exit(w)
    BY <1>3, StatesAreNoTasks DEF Exit
  <1>4. ASSUME NEW result \in {"ok", "failed"}, Finish(w, result) PROVE HeldOnce'
    BY <1>4, StatesAreNoTasks DEF Finish
  <1> QED BY <1>1, <1>2, <1>3, <1>4 DEF WorkerStep

-----------------------------------------------------------------------------
\* No step puts a task into the buffer past a parked worker.
LEMMA NextNoLostWakeup == IInv /\ Next => NoLostWakeup'
  <1> SUFFICES ASSUME IInv, Next PROVE NoLostWakeup'
    OBVIOUS
  <1> USE QueueAssumption DEF IInv, TypeOK, NoLostWakeup, Waiting
  <1>1. ASSUME NEW t \in Task, Dispatch(t) PROVE NoLostWakeup'
    BY <1>1, StatesAreNoTasks
    DEF Dispatch, HandOver, Enqueue, DropTask, DispatchClosed, TakenIn
  <1>2. ASSUME NEW w \in Worker, Receive(w) PROVE NoLostWakeup'
    <2>1. Head(taskChan) \in Task /\ taskChan # <<>>
      BY <1>2 DEF Receive
    <2> QED BY <1>2, <2>1, StatesAreNoTasks DEF Receive
  <1>3. ASSUME NEW w \in Worker, Park(w) \/ Exit(w) PROVE NoLostWakeup'
    BY <1>3 DEF Park, Exit
  <1>4. ASSUME NEW w \in Worker, NEW result \in {"ok", "failed"}, Finish(w, result)
        PROVE  NoLostWakeup'
    BY <1>4 DEF Finish
  <1>5. CASE Close
    BY <1>5 DEF Close
  <1> QED BY <1>1, <1>2, <1>3, <1>4, <1>5 DEF Next, WorkerStep

\* Every step preserves the inductive invariant.
LEMMA NextIInv == IInv /\ [Next]_vars => IInv'
  <1> SUFFICES ASSUME IInv, [Next]_vars PROVE IInv'
    OBVIOUS
  <1>1. ASSUME NEW t \in Task, Dispatch(t) PROVE TypeOK' /\ HeldOnce'
    BY <1>1, DispatchTypes, DispatchHeldOnce
  <1>2. ASSUME NEW w \in Worker, WorkerStep(w) PROVE TypeOK' /\ HeldOnce'
    BY <1>2, WorkerTypes, WorkerHeldOnce
  <1>3. ASSUME Close PROVE TypeOK' /\ HeldOnce'
    <2>1. TypeOK'
      BY <1>3 DEF IInv, TypeOK, Close
    <2>2. \A v \in Worker : worker'[v] = IF worker[v] = Parked THEN Ready ELSE worker[v]
      BY <1>3 DEF Close
    <2>3. \A t \in Task, v \in Worker : worker'[v] = t <=> worker[v] = t
      BY <2>2, StatesAreNoTasks
    <2>4. HeldOnce'
      BY <1>3, <2>3 DEF Close, IInv, HeldOnce, Holds, Buffered
    <2> QED BY <2>1, <2>4
  <1>4. CASE UNCHANGED vars
    BY <1>4 DEF vars, IInv, TypeOK, HeldOnce, NoLostWakeup, Holds, Buffered
  <1>5. CASE Next
    BY <1>1, <1>2, <1>3, <1>5, NextNoLostWakeup DEF Next, IInv
  <1> QED BY <1>4, <1>5

\* The queue's state always has its types, its buffer never exceeds QueueSize.
THEOREM TypeCorrect == Spec => []TypeOK
  <1>1. IInv => TypeOK BY DEF IInv
  <1> QED BY InitIInv, NextIInv, <1>1, PTL DEF Spec

\* No accepted task is ever lost or handled twice (HeldOnce).
THEOREM NoTaskLostOrDoubled == Spec => []HeldOnce
  <1>1. IInv => HeldOnce BY DEF IInv
  <1> QED BY InitIInv, NextIInv, <1>1, PTL DEF Spec

\* No worker sleeps or leaves while a task waits (NoLostWakeup).
THEOREM WorkersWake == Spec => []NoLostWakeup
  <1>1. IInv => NoLostWakeup BY DEF IInv
  <1> QED BY InitIInv, NextIInv, <1>1, PTL DEF Spec

-----------------------------------------------------------------------------
\* The queue keeps what TaskDelivery promises its callers.  What is pending is
\* in the buffer or with a worker, so it is counted by the two.
Held == {t \in Task : \E w \in Worker : Holds(w, t)}
InBuffer == {taskChan[i] : i \in 1..Len(taskChan)}
Busy == {w \in Worker : worker[w] \in Task}

LEMMA PlacesCounted ==
    ASSUME IInv
    PROVE  /\ Promise!Pending = InBuffer \cup Held
           /\ IsFiniteSet(InBuffer) /\ Cardinality(InBuffer) = Len(taskChan)
           /\ IsFiniteSet(Held) /\ IsFiniteSet(Busy) /\ Cardinality(Held) <= Cardinality(Busy)
           /\ Len(taskChan) \in Nat /\ Cardinality(Held) \in Nat
           /\ Cardinality(Busy) \in Nat
  <1> DEFINE n == Len(taskChan)
  <1>1. /\ n \in Nat /\ n <= QueueSize /\ taskChan \in Seq(Task)
        /\ worker \in [Worker -> Task \cup {Ready, Parked, Exited}]
    BY DEF IInv, TypeOK
  <1>2. Promise!Pending = InBuffer \cup Held
    BY <1>1 DEF IInv, HeldOnce, Holds, Buffered, Promise!Pending, InBuffer, Held
  <1>3. IsFiniteSet(InBuffer) /\ Cardinality(InBuffer) = n
    <2> DEFINE g == [i \in 1..n |-> taskChan[i]]
    <2>1. g \in Injection(1..n, InBuffer) /\ g \in Surjection(1..n, InBuffer)
      <3>1. \A i \in 1..n : taskChan[i] \in Task
        BY <1>1
      <3>2. \A i, j \in 1..n : taskChan[i] = taskChan[j] => i = j
        BY <3>1 DEF IInv, HeldOnce, Buffered
      <3> QED BY <3>2 DEF Injection, IsInjective, Surjection, InBuffer
    <2>2. IsFiniteSet(1..n) /\ Cardinality(1..n) = n
      <3>1. 1 \in Int /\ n \in Int
        BY <1>1
      <3>2. IsFiniteSet(1..n) /\ Cardinality(1..n) = IF 1 > n THEN 0 ELSE n - 1 + 1
        BY <3>1, FS_Interval, Zenon
      <3> QED BY <1>1, <3>2
    <2> HIDE DEF g
    <2> QED BY <2>1, <2>2, FS_Surjection
  <1>4. IsFiniteSet(Busy) /\ Cardinality(Busy) \in Nat
    BY QueueAssumption, FS_Subset, FS_CardinalityType DEF Busy
  <1>5. IsFiniteSet(Held) /\ Cardinality(Held) <= Cardinality(Busy)
    <2> DEFINE g == [w \in Busy |-> worker[w]]
    <2>1. g \in Surjection(Busy, Held)
      BY DEF Surjection, Busy, Held, Holds
    <2> HIDE DEF g
    <2> QED BY <1>4, <2>1, FS_Surjection
  <1> QED BY <1>1, <1>2, <1>3, <1>4, <1>5, FS_CardinalityType

LEMMA PendingCounted ==
    ASSUME IInv
    PROVE  /\ Promise!Cardinality(Promise!Pending) \in Nat
           /\ Len(taskChan) <= Promise!Cardinality(Promise!Pending)
           /\ Promise!Cardinality(Promise!Pending) <= Len(taskChan) + Cardinality(Busy)
           /\ Cardinality(Busy) <= Cardinality(Worker)
           /\ Waiting # {} => Cardinality(Busy) < Cardinality(Worker)
           /\ Promise!Cardinality(Worker) = Cardinality(Worker)
           /\ Cardinality(Worker) \in Nat
  <1>1. \A S : Promise!Cardinality(S) = Cardinality(S)
    BY Zenon DEF Cardinality, Promise!Cardinality
  <1> DEFINE both == InBuffer \cup Held
             common == InBuffer \cap Held
  <1>2. /\ IsFiniteSet(both)
        /\ Cardinality(both) = Cardinality(InBuffer) + Cardinality(Held) - Cardinality(common)
    BY PlacesCounted, FS_Union
  <1>3. common \in SUBSET InBuffer /\ InBuffer \in SUBSET both /\ Promise!Pending = both
    BY PlacesCounted
  <1> HIDE DEF both, common
  <1>4. /\ Cardinality(common) \in Nat /\ Cardinality(both) \in Nat
        /\ Cardinality(InBuffer) <= Cardinality(both) /\ Cardinality(InBuffer) \in Nat
    BY <1>2, <1>3, PlacesCounted, FS_Subset, FS_CardinalityType
  <1>5. /\ Cardinality(Worker) \in Nat /\ Cardinality(Busy) <= Cardinality(Worker)
        /\ Cardinality(Busy) = Cardinality(Worker) => Worker = Busy
    BY QueueAssumption, FS_Subset, FS_CardinalityType DEF Busy
  <1>6. Waiting # {} => Busy # Worker
    BY QueueAssumption DEF Waiting, Busy
  <1>7. /\ Cardinality(InBuffer) <= Cardinality(Promise!Pending)
        /\ Cardinality(Promise!Pending) <= Cardinality(InBuffer) + Cardinality(Held)
        /\ Cardinality(Promise!Pending) \in Nat
    BY <1>2, <1>3, <1>4, PlacesCounted
  <1>8. /\ Len(taskChan) <= Cardinality(Promise!Pending)
        /\ Cardinality(Promise!Pending) <= Len(taskChan) + Cardinality(Busy)
    BY <1>4, <1>7, PlacesCounted
  <1>9. Waiting # {} => Cardinality(Busy) < Cardinality(Worker)
    BY <1>5, <1>6, PlacesCounted
  <1> QED BY <1>1, <1>5, <1>7, <1>8, <1>9

\* Every step of the queue is a step that the callers were promised.
LEMMA PromisedStep ==
    ASSUME IInv, [Next]_vars
    PROVE  [Promise!Next]_outcome
  <1>0. Len(taskChan) \in Nat /\ Len(taskChan) <= QueueSize /\ QueueSize \in Nat
    BY QueueAssumption DEF IInv, TypeOK
  <1>1. ASSUME NEW t \in Task, Dispatch(t)  PROVE Promise!Next
    <2>1. CASE HandOver(t)
      <3>1. Waiting # {} /\ taskChan = <<>>
        BY <2>1 DEF HandOver, Waiting, IInv, NoLostWakeup
      <3>2. Len(taskChan) = 0
        BY <3>1
      <3>3. Promise!Cardinality(Promise!Pending) < QueueSize + Promise!Cardinality(Worker)
        BY <1>0, <3>1, <3>2, PendingCounted, PlacesCounted
      <3>4. Promise!Accept(t)
        BY <2>1, <3>3 DEF HandOver, TakenIn, Promise!Accept
      <3> QED BY <3>4 DEF Promise!Next
    <2>2. CASE Enqueue(t)
      <3>1. Promise!Cardinality(Promise!Pending) < QueueSize + Promise!Cardinality(Worker)
        BY <1>0, <2>2, PendingCounted, PlacesCounted DEF Enqueue
      <3>2. Promise!Accept(t)
        BY <2>2, <3>1 DEF Enqueue, TakenIn, Promise!Accept
      <3> QED BY <3>2 DEF Promise!Next
    <2>3. CASE DropTask(t)
      <3>1. Promise!Cardinality(Promise!Pending) >= QueueSize
        BY <1>0, <2>3, PendingCounted DEF DropTask, Full
      <3>2. Promise!Drop(t)
        BY <2>3, <3>1 DEF DropTask, Promise!Drop
      <3> QED BY <3>2 DEF Promise!Next
    <2>4. CASE DispatchClosed(t)
      BY <2>4 DEF DispatchClosed, Promise!DispatchAfterClose, Promise!Next
    <2> QED BY <1>1, <2>1, <2>2, <2>3, <2>4 DEF Dispatch
  <1>2. ASSUME NEW w \in Worker, WorkerStep(w)  PROVE [Promise!Next]_outcome
    <2>1. CASE Receive(w) \/ Park(w) \/ Exit(w)
      BY <2>1 DEF Receive, Park, Exit
    <2>2. ASSUME NEW result \in {"ok", "failed"}, Finish(w, result)  PROVE Promise!Next
      <3>1. worker[w] \in Task /\ outcome[worker[w]] = "accepted"
        BY <2>2 DEF Finish, IInv, HeldOnce, Holds
      <3>2. Promise!Handle(worker[w], result)
        BY <2>2, <3>1 DEF Finish, Promise!Handle
      <3> QED BY <3>1, <3>2 DEF Promise!Next, Promise!Results
    <2> QED BY <1>2, <2>1, <2>2 DEF WorkerStep
  <1> QED BY <1>1, <1>2 DEF Next, vars, Close

\* The channel and its workers keep the promise made to the callers, for any
\* number of workers and any buffer: no more tasks are taken in than the buffer
\* and the workers hold, one is refused only when a buffer full is pending, and
\* each is handled once at most.  (The fairness of DeliverySpec is not proved.)
THEOREM DeliverySafe == Spec => Promise!Init /\ [][Promise!Next]_outcome
  <1>1. Init => Promise!Init
    BY DEF Init, Promise!Init
  <1> QED BY <1>1, InitIInv, NextIInv, PromisedStep, PTL DEF Spec

-----------------------------------------------------------------------------
\* The invariant of the queue, and the history's tail in the buffer.
OInv == IInv /\ FirstInFirstOut

-----------------------------------------------------------------------------
LEMMA InitOInv == OInit => OInv
  <1> SUFFICES ASSUME OInit PROVE OInv
    OBVIOUS
  <1>1. IInv
    BY InitIInv DEF OInit
  <1>2. accepted \in Seq(Task) /\ Len(accepted) = 0 /\ Len(taskChan) = 0
    BY DEF OInit, Init
  <1>3. FirstInFirstOut
    BY <1>2 DEF FirstInFirstOut, Started
  <1> QED BY <1>1, <1>3 DEF OInv

\* Steps of the extended queue are steps of the queue.
LEMMA ONextIsNext == [ONext]_ovars => [Next]_vars
  BY DEF ONext, ODispatch, Next, ovars

\* A dispatched task joins both the history and, or else a worker, the buffer.
LEMMA DispatchOrder ==
    ASSUME OInv, NEW t \in Task, ODispatch(t)
    PROVE  FirstInFirstOut'
  <1> USE DEF Finished
  <1> DEFINE n == Len(taskChan)
             m == Len(accepted)
  <1>0. /\ taskChan \in Seq(Task) /\ accepted \in Seq(Task)
        /\ n \in Nat /\ m \in Nat /\ n <= m
        /\ outcome \in [Task -> Statuses]
        /\ worker \in [Worker -> Task \cup {Ready, Parked, Exited}]
        /\ \A i \in 1..n : taskChan[i] = accepted[m - n + i]
        /\ \A i \in 1..(m - n) : Finished(accepted[i]) \/ \E w \in Worker : worker[w] = accepted[i]
    <2>1. TypeOK /\ FirstInFirstOut
      BY DEF OInv, IInv
    <2>2. /\ taskChan \in Seq(Task) /\ outcome \in [Task -> Statuses]
          /\ worker \in [Worker -> Task \cup {Ready, Parked, Exited}]
      BY <2>1 DEF TypeOK
    <2>3. /\ accepted \in Seq(Task) /\ n <= m
          /\ \A i \in 1..n : taskChan[i] = accepted[m - n + i]
          /\ \A i \in 1..(m - n) :
                 Finished(accepted[i]) \/ \E w \in Worker : worker[w] = accepted[i]
      BY <2>1 DEF FirstInFirstOut, Started
    <2>4. n \in Nat /\ m \in Nat
      BY <2>2, <2>3
    <2> QED BY <2>2, <2>3, <2>4
  <1>1. outcome[t] = "new"
    BY DEF ODispatch, Dispatch, HandOver, Enqueue, DropTask, DispatchClosed
  <1>2. ASSUME NEW i \in 1..m, Finished(accepted[i])
        PROVE  outcome'[accepted[i]] \in {"ok", "failed"}
    <2>1. accepted[i] # t /\ accepted[i] \in Task
      BY <1>0, <1>1, <1>2
    <2>2. outcome'[accepted[i]] = outcome[accepted[i]]
      BY <2>1, <1>0
      DEF ODispatch, Dispatch, HandOver, Enqueue, DropTask, DispatchClosed, TakenIn
    <2> QED BY <1>2, <2>2
  <1>3. CASE HandOver(t)
    <2>1. PICK w \in Waiting : worker' = [worker EXCEPT ![w] = t]
      BY <1>3 DEF HandOver
    <2>2. w \in Worker /\ worker[w] = Parked /\ n = 0 /\ taskChan' = taskChan
      <3>1. w \in Worker /\ worker[w] = Parked
        BY <2>1 DEF Waiting
      <3>2. taskChan = <<>>
        BY <3>1 DEF OInv, IInv, NoLostWakeup
      <3> QED BY <1>3, <3>1, <3>2 DEF HandOver
    <2>3. accepted' = Append(accepted, t)
      BY <1>0, <1>3 DEF ODispatch, HandOver, TakenIn
    <2>4. /\ accepted' \in Seq(Task) /\ Len(accepted') = m + 1
          /\ accepted'[m + 1] = t
          /\ \A i \in 1..m : accepted'[i] = accepted[i]
      BY <1>0, <2>3
    <2>5. ASSUME NEW i \in 1..(m + 1)
          PROVE  Finished(accepted[i])' \/ \E v \in Worker : worker'[v] = accepted'[i]
      <3>1. CASE i = m + 1
        BY <1>0, <2>1, <2>2, <2>4, <3>1
      <3>2. CASE i \in 1..m /\ Finished(accepted[i])
        BY <1>2, <2>4, <3>2
      <3>3. CASE i \in 1..m /\ ~Finished(accepted[i])
        <4>1. PICK v \in Worker : worker[v] = accepted[i]
          BY <1>0, <2>2, <3>3
        <4>2. v # w
          BY <1>0, <2>2, <3>3, <4>1, StatesAreNoTasks
        <4> QED BY <1>0, <2>1, <2>4, <3>3, <4>1, <4>2
      <3> QED BY <1>0, <3>1, <3>2, <3>3
    <2> QED BY <1>0, <2>2, <2>4, <2>5 DEF FirstInFirstOut, Started
  <1>4. CASE Enqueue(t)
    <2>1. accepted' = Append(accepted, t) /\ taskChan' = Append(taskChan, t) /\ worker' = worker
      BY <1>0, <1>4 DEF ODispatch, Enqueue, TakenIn
    <2>2. /\ accepted' \in Seq(Task) /\ Len(accepted') = m + 1
          /\ accepted'[m + 1] = t
          /\ \A i \in 1..m : accepted'[i] = accepted[i]
      BY <1>0, <2>1
    <2>3. /\ Len(taskChan') = n + 1
          /\ taskChan'[n + 1] = t
          /\ \A i \in 1..n : taskChan'[i] = taskChan[i]
      BY <1>0, <2>1
    <2>4. ASSUME NEW i \in 1..(n + 1)
          PROVE  taskChan'[i] = accepted'[(m + 1) - (n + 1) + i]
      <3>1. CASE i = n + 1 BY <1>0, <2>2, <2>3, <3>1
      <3>2. CASE i \in 1..n
        <4>1. m - n + i \in 1..m /\ (m + 1) - (n + 1) + i = m - n + i
          BY <1>0, <3>2
        <4> QED BY <1>0, <2>2, <2>3, <3>2, <4>1
      <3> QED BY <1>0, <3>1, <3>2
    <2>5. ASSUME NEW i \in 1..((m + 1) - (n + 1))
          PROVE  Finished(accepted[i])' \/ \E v \in Worker : worker'[v] = accepted'[i]
      <3>1. i \in 1..(m - n) /\ i \in 1..m
        BY <1>0
      <3> QED BY <1>0, <1>2, <2>1, <2>2, <3>1
    <2>6. Started' = (m + 1) - (n + 1) /\ n + 1 <= m + 1
      BY <1>0, <2>2, <2>3 DEF Started
    <2> HIDE DEF n, m
    <2> QED BY <2>2, <2>3, <2>4, <2>5, <2>6 DEF FirstInFirstOut
  <1>5. CASE DropTask(t) \/ DispatchClosed(t)
    <2>1. taskChan' = taskChan /\ worker' = worker /\ accepted' = accepted
      BY <1>0, <1>5 DEF ODispatch, DropTask, DispatchClosed
    <2>2. ASSUME NEW i \in 1..(m - n)
          PROVE  Finished(accepted[i])' \/ \E v \in Worker : worker'[v] = accepted'[i]
      <3>1. i \in 1..m
        BY <1>0
      <3> QED BY <1>0, <1>2, <2>1, <3>1
    <2> QED BY <1>0, <2>1, <2>2 DEF FirstInFirstOut, Started
  <1> QED BY <1>3, <1>4, <1>5 DEF ODispatch, Dispatch

\* A received task leaves the head of the buffer for a worker; a handled one
\* leaves the worker; nothing else moves.
LEMMA WorkerOrder ==
    ASSUME OInv, NEW w \in Worker, WorkerStep(w), accepted' = accepted
    PROVE  FirstInFirstOut'
  <1> USE DEF Finished
  <1> DEFINE n == Len(taskChan)
             m == Len(accepted)
  <1>0. /\ taskChan \in Seq(Task) /\ accepted \in Seq(Task)
        /\ n \in Nat /\ m \in Nat /\ n <= m
        /\ outcome \in [Task -> Statuses]
        /\ worker \in [Worker -> Task \cup {Ready, Parked, Exited}]
        /\ \A i \in 1..n : taskChan[i] = accepted[m - n + i]
        /\ \A i \in 1..(m - n) : Finished(accepted[i]) \/ \E v \in Worker : worker[v] = accepted[i]
        /\ \A i \in 1..m : accepted[i] \in Task
    BY DEF OInv, IInv, TypeOK, FirstInFirstOut, Started
  <1>1. CASE Receive(w)
    <2>1. /\ n > 0 /\ Len(taskChan') = n - 1
          /\ \A i \in 1..(n - 1) : taskChan'[i] = taskChan[i + 1]
          /\ worker' = [worker EXCEPT ![w] = taskChan[1]]
          /\ worker[w] \notin Task /\ outcome' = outcome
      BY <1>0, <1>1, QueueAssumption DEF Receive
    <2>2. ASSUME NEW i \in 1..(n - 1) PROVE taskChan'[i] = accepted[m - (n - 1) + i]
      <3>1. i + 1 \in 1..n /\ m - n + (i + 1) = m - (n - 1) + i
        BY <1>0, <2>1
      <3> QED BY <1>0, <2>1, <3>1
    <2>3. ASSUME NEW i \in 1..(m - (n - 1))
          PROVE  Finished(accepted[i])' \/ \E v \in Worker : worker'[v] = accepted[i]
      <3>1. CASE i = m - n + 1
        <4>1. taskChan[1] = accepted[i]
          BY <1>0, <2>1, <3>1
        <4> QED BY <1>0, <2>1, <4>1
      <3>2. CASE i \in 1..(m - n)
        <4>1. i \in 1..m
          BY <1>0, <3>2
        <4>2. CASE Finished(accepted[i])
          BY <2>1, <4>2 DEF Finished
        <4>3. CASE \E v \in Worker : worker[v] = accepted[i]
          <5>1. PICK v \in Worker : worker[v] = accepted[i]
            BY <4>3
          <5>2. v # w
            BY <1>0, <2>1, <4>1, <5>1
          <5> QED BY <1>0, <2>1, <5>1, <5>2
        <4> QED BY <1>0, <3>2, <4>2, <4>3
      <3> QED BY <1>0, <2>1, <3>1, <3>2
    <2> QED BY <1>0, <2>1, <2>2, <2>3 DEF FirstInFirstOut, Started
  <1>2. CASE Park(w) \/ Exit(w)
    <2>1. /\ taskChan' = taskChan /\ outcome' = outcome
          /\ \A v \in Worker : worker[v] \in Task => worker'[v] = worker[v]
      BY <1>0, <1>2, QueueAssumption DEF Park, Exit
    <2>2. \A i \in 1..(m - n) : i \in 1..m
      BY <1>0
    <2>3. ASSUME NEW i \in 1..(m - n)
          PROVE  Finished(accepted[i])' \/ \E v \in Worker : worker'[v] = accepted[i]
      BY <1>0, <2>1, <2>2 DEF Finished
    <2> QED BY <1>0, <2>1, <2>3 DEF FirstInFirstOut, Started
  <1>3. ASSUME NEW result \in {"ok", "failed"}, Finish(w, result)
        PROVE  FirstInFirstOut'
    <2>1. /\ taskChan' = taskChan /\ worker[w] \in Task
          /\ outcome' = [outcome EXCEPT ![worker[w]] = result]
          /\ worker' = [worker EXCEPT ![w] = Ready]
      BY <1>3 DEF Finish
    <2>2. ASSUME NEW i \in 1..(m - n)
          PROVE  Finished(accepted[i])' \/ \E v \in Worker : worker'[v] = accepted[i]
      <3>1. accepted[i] \in Task
        BY <1>0
      <3>2. CASE accepted[i] = worker[w]
        BY <1>0, <1>3, <2>1, <3>1, <3>2 DEF Finished
      <3>3. CASE accepted[i] # worker[w]
        <4>1. outcome'[accepted[i]] = outcome[accepted[i]]
          BY <1>0, <2>1, <3>1, <3>3
        <4>2. CASE Finished(accepted[i])
          BY <4>1, <4>2 DEF Finished
        <4>3. CASE ~Finished(accepted[i])
          <5>1. PICK v \in Worker : worker[v] = accepted[i]
            BY <1>0, <4>3
          <5>2. v # w
            BY <3>3, <5>1
          <5> QED BY <1>0, <2>1, <5>1, <5>2
        <4> QED BY <4>2, <4>3
      <3> QED BY <3>2, <3>3
    <2> QED BY <1>0, <2>1, <2>2 DEF FirstInFirstOut, Started
  <1> QED BY <1>1, <1>2, <1>3 DEF WorkerStep

-----------------------------------------------------------------------------
LEMMA NextOInv == OInv /\ [ONext]_ovars => OInv'
  <1> SUFFICES ASSUME OInv, [ONext]_ovars PROVE OInv'
    OBVIOUS
  <1> USE DEF Finished
  <1>1. IInv'
    BY NextIInv, ONextIsNext DEF OInv
  <1>2. ASSUME NEW t \in Task, ODispatch(t) PROVE FirstInFirstOut'
    BY <1>2, DispatchOrder
  <1>3. ASSUME NEW w \in Worker, WorkerStep(w), UNCHANGED accepted PROVE FirstInFirstOut'
    BY <1>3, WorkerOrder
  <1>4. ASSUME Close, UNCHANGED accepted PROVE FirstInFirstOut'
    <2>1. /\ taskChan' = taskChan /\ outcome' = outcome
          /\ \A v \in Worker : worker[v] # Parked => worker'[v] = worker[v]
      BY <1>4 DEF Close
    <2>2. \A i \in 1..Started : accepted[i] \in Task
      BY DEF OInv, IInv, TypeOK, FirstInFirstOut, Started
    <2>3. ASSUME NEW i \in 1..Started
          PROVE  Finished(accepted[i])' \/ \E v \in Worker : worker'[v] = accepted[i]
      BY <1>4, <2>1, <2>2, StatesAreNoTasks DEF OInv, FirstInFirstOut, Finished
    <2> QED BY <1>4, <2>1, <2>3 DEF OInv, FirstInFirstOut, Started
  <1>5. ASSUME UNCHANGED ovars PROVE FirstInFirstOut'
    <2>1. taskChan' = taskChan /\ worker' = worker /\ outcome' = outcome /\ accepted' = accepted
      BY <1>5 DEF ovars, vars
    <2> QED BY <2>1 DEF OInv, FirstInFirstOut, Started
  <1>6. ASSUME ONext PROVE FirstInFirstOut'
    BY <1>2, <1>3, <1>4, <1>6 DEF ONext
  <1> QED BY <1>1, <1>5, <1>6 DEF OInv

\* The buffer is always the tail of the accepted tasks, and every task before
\* that tail has been taken by a worker (Dispatch, worker).
THEOREM TakenInOrder == OSpec => []FirstInFirstOut
  <1>1. OInv => FirstInFirstOut BY DEF OInv
  <1> QED BY InitOInv, NextOInv, <1>1, PTL DEF OSpec

-----------------------------------------------------------------------------
\* Why BoundedOvertaking holds: the worker that has handled a task takes only
\* later ones from then on, so that it holds none of the earlier ones, and each
\* of these is held by another worker, as no task is accepted twice.
Distinct ==
    /\ \A i \in 1..Len(accepted) : outcome[accepted[i]] \in {"accepted", "ok", "failed"}
    /\ \A i, j \in 1..Len(accepted) : accepted[i] = accepted[j] => i = j

Overtook(w, j) ==
    \A i \in 1..(j - 1) : ~Finished(accepted[i]) => worker[w] # accepted[i]

Spare ==
    \A j \in 1..Len(accepted) :
        Finished(accepted[j]) => \E w \in Worker : Overtook(w, j)

BInv == OInv /\ Distinct /\ Spare

\* How a step changes the history, the fates of the tasks and the workers.
LEMMA StepEffects ==
    ASSUME OInv, [ONext]_ovars
    PROVE  /\ \/ accepted' = accepted
              \/ \E t \in Task : /\ accepted' = Append(accepted, t)
                                 /\ outcome[t] = "new" /\ outcome'[t] = "accepted"
           /\ \A t \in Task : outcome[t] \in {"accepted", "ok", "failed"} =>
                  outcome'[t] = outcome[t] \/ Finished(t)'
           /\ \A w \in Worker :
                  \/ worker'[w] = worker[w] \/ worker'[w] \notin Task
                  \/ outcome[worker'[w]] = "new"
                  \/ taskChan # <<>> /\ worker'[w] = taskChan[1]
           /\ \A t \in Task : ~Finished(t) /\ Finished(t)' =>
                  \E w \in Worker : worker'[w] \notin Task
  <1> DEFINE Goal1 == \/ accepted' = accepted
                      \/ \E t \in Task : /\ accepted' = Append(accepted, t)
                                         /\ outcome[t] = "new" /\ outcome'[t] = "accepted"
             Goal2 == \A t \in Task : outcome[t] \in {"accepted", "ok", "failed"} =>
                         outcome'[t] = outcome[t] \/ Finished(t)'
             Goal3 == \A w \in Worker :
                         \/ worker'[w] = worker[w] \/ worker'[w] \notin Task
                         \/ outcome[worker'[w]] = "new"
                         \/ taskChan # <<>> /\ worker'[w] = taskChan[1]
             Goal4 == \A t \in Task : ~Finished(t) /\ Finished(t)' =>
                         \E w \in Worker : worker'[w] \notin Task
  <1>0. /\ taskChan \in Seq(Task) /\ outcome \in [Task -> Statuses]
        /\ worker \in [Worker -> Task \cup {Ready, Parked, Exited}]
    BY DEF OInv, IInv, TypeOK
  <1>1. ASSUME NEW t \in Task, ODispatch(t)  PROVE Goal1 /\ Goal2 /\ Goal3 /\ Goal4
    <2>1. /\ outcome[t] = "new"
          /\ outcome'[t] \in {"accepted", "dropped", "panicked"}
          /\ \A u \in Task : u # t => outcome'[u] = outcome[u]
      BY <1>0, <1>1 DEF ODispatch, Dispatch, HandOver, Enqueue, DropTask, DispatchClosed, TakenIn
    <2>2. Goal1
      BY <1>1, <2>1 DEF ODispatch
    <2>3. Goal2 /\ Goal4
      BY <2>1 DEF Finished
    <2>4. Goal3
      BY <1>0, <1>1, <2>1
         DEF ODispatch, Dispatch, HandOver, Enqueue, DropTask, DispatchClosed, Waiting
    <2> QED BY <2>2, <2>3, <2>4
  <1>2. ASSUME NEW w \in Worker, WorkerStep(w), UNCHANGED accepted
        PROVE  Goal1 /\ Goal2 /\ Goal3 /\ Goal4
    <2>1. CASE Receive(w) \/ Park(w) \/ Exit(w)
      <3>1. outcome' = outcome
        BY <2>1 DEF Receive, Park, Exit
      <3>2. Goal3
        BY <1>0, <2>1, QueueAssumption DEF Receive, Park, Exit
      <3> QED BY <1>2, <3>1, <3>2 DEF Finished
    <2>2. ASSUME NEW result \in {"ok", "failed"}, Finish(w, result)
          PROVE  Goal1 /\ Goal2 /\ Goal3 /\ Goal4
      <3>1. worker' = [worker EXCEPT ![w] = Ready] /\ Ready \notin Task
        BY <2>2, QueueAssumption DEF Finish
      <3>2. /\ outcome'[worker[w]] = result
            /\ \A u \in Task : u # worker[w] => outcome'[u] = outcome[u]
        BY <1>0, <2>2 DEF Finish
      <3>3. Goal2
        BY <3>2 DEF Finished
      <3>4. Goal3 /\ Goal4
        BY <1>0, <3>1
      <3> QED BY <1>2, <3>3, <3>4
    <2> QED BY <1>2, <2>1, <2>2 DEF WorkerStep
  <1>3. ASSUME Close, UNCHANGED accepted  PROVE Goal1 /\ Goal2 /\ Goal3 /\ Goal4
    <2>1. outcome' = outcome
      BY <1>3 DEF Close
    <2>2. Goal3
      BY <1>0, <1>3, QueueAssumption DEF Close
    <2> QED BY <1>3, <2>1, <2>2 DEF Finished
  <1>4. ASSUME UNCHANGED ovars  PROVE Goal1 /\ Goal2 /\ Goal3 /\ Goal4
    BY <1>4 DEF ovars, vars, Finished
  <1> HIDE DEF Goal1, Goal2, Goal3, Goal4
  <1>5. Goal1 /\ Goal2 /\ Goal3 /\ Goal4
    BY <1>1, <1>2, <1>3, <1>4 DEF ONext
  <1> QED BY <1>5 DEF Goal1, Goal2, Goal3, Goal4

\* A handled task is past the buffer, and what a worker may receive is not.
LEMMA FinishedBeforeHead ==
    ASSUME OInv, NEW j \in 1..Len(accepted), Finished(accepted[j])
    PROVE  /\ j <= Started
           /\ taskChan # <<>> => \E k \in 1..Len(accepted) :
                                    k > j /\ taskChan[1] = accepted[k]
  <1> DEFINE n == Len(taskChan)
             m == Len(accepted)
  <1>1. /\ taskChan \in Seq(Task) /\ accepted \in Seq(Task)
        /\ n \in Nat /\ m \in Nat /\ n <= m /\ Started = m - n
        /\ \A i \in 1..n : taskChan[i] = accepted[m - n + i]
    BY DEF OInv, IInv, TypeOK, FirstInFirstOut, Started
  <1>2. \A i \in 1..n : outcome[taskChan[i]] = "accepted"
    BY <1>1 DEF OInv, IInv, HeldOnce, Buffered
  <1>3. j <= m - n
    <2>1. SUFFICES ASSUME j > m - n  PROVE FALSE
      BY <1>1
    <2>2. j - (m - n) \in 1..n /\ m - n + (j - (m - n)) = j
      BY <1>1, <2>1
    <2>3. accepted[j] = taskChan[j - (m - n)]
      BY <1>1, <2>2
    <2> QED BY <1>2, <2>2, <2>3 DEF Finished
  <1>4. taskChan # <<>> => 1 \in 1..n /\ m - n + 1 \in 1..m /\ m - n + 1 > j
    BY <1>1, <1>3
  <1> QED BY <1>1, <1>3, <1>4

LEMMA InitBInv == OInit => BInv
  <1> SUFFICES ASSUME OInit PROVE BInv
    OBVIOUS
  <1>1. Len(accepted) = 0
    BY DEF OInit
  <1> QED BY <1>1, InitOInv DEF BInv, Distinct, Spare

\* The history only grows, by one task that was never accepted before, and what
\* it holds stays accepted or handled.
LEMMA HistoryStep ==
    ASSUME OInv, Distinct, [ONext]_ovars, NEW i \in 1..Len(accepted)
    PROVE  /\ accepted[i] \in Task /\ accepted'[i] = accepted[i]
           /\ outcome'[accepted[i]] \in {"accepted", "ok", "failed"}
           /\ Finished(accepted[i]) => outcome'[accepted[i]] \in {"ok", "failed"}
  <1>1. accepted \in Seq(Task) /\ accepted[i] \in Task
    BY DEF OInv, FirstInFirstOut
  <1>2. accepted'[i] = accepted[i]
    <2>1. CASE accepted' = accepted
      BY <2>1
    <2>2. ASSUME NEW t \in Task, accepted' = Append(accepted, t)
          PROVE  accepted'[i] = accepted[i]
      BY <1>1, <2>2
    <2> QED BY <2>1, <2>2, StepEffects
  <1>3. outcome[accepted[i]] \in {"accepted", "ok", "failed"}
    BY DEF Distinct
  <1>4. outcome'[accepted[i]] = outcome[accepted[i]]
            \/ outcome'[accepted[i]] \in {"ok", "failed"}
    BY <1>1, <1>3, StepEffects DEF Finished
  <1> QED BY <1>1, <1>2, <1>3, <1>4 DEF Finished

LEMMA HistoryEnd ==
    ASSUME OInv, [ONext]_ovars
    PROVE  \/ accepted' = accepted
           \/ /\ Len(accepted') = Len(accepted) + 1
              /\ accepted'[Len(accepted) + 1] \in Task
              /\ outcome[accepted'[Len(accepted) + 1]] = "new"
              /\ outcome'[accepted'[Len(accepted) + 1]] = "accepted"
  <1>1. accepted \in Seq(Task)
    BY DEF OInv, FirstInFirstOut
  <1>2. ASSUME NEW t \in Task, accepted' = Append(accepted, t)
        PROVE  Len(accepted') = Len(accepted) + 1 /\ accepted'[Len(accepted) + 1] = t
    BY <1>1, <1>2
  <1> QED BY <1>2, StepEffects

LEMMA NextDistinct ==
    ASSUME OInv, Distinct, [ONext]_ovars
    PROVE  Distinct'
  <1>1. Len(accepted) \in Nat
    BY DEF OInv, FirstInFirstOut
  <1>2. CASE accepted' = accepted
    <2>1. \A i \in 1..Len(accepted) :
              outcome'[accepted[i]] \in {"accepted", "ok", "failed"}
      BY HistoryStep
    <2> QED BY <1>2, <2>1 DEF Distinct
  <1>3. CASE /\ Len(accepted') = Len(accepted) + 1
             /\ outcome[accepted'[Len(accepted) + 1]] = "new"
             /\ outcome'[accepted'[Len(accepted) + 1]] = "accepted"
    <2>1. \A i \in 1..Len(accepted') : i \in 1..Len(accepted) \/ i = Len(accepted) + 1
      BY <1>1, <1>3
    <2>2. ASSUME NEW i \in 1..Len(accepted)
          PROVE  /\ accepted'[i] = accepted[i]
                 /\ outcome'[accepted'[i]] \in {"accepted", "ok", "failed"}
                 /\ accepted'[i] # accepted'[Len(accepted) + 1]
      <3>1. accepted'[i] = accepted[i] /\ outcome'[accepted[i]] \in {"accepted", "ok", "failed"}
        BY HistoryStep
      <3>2. outcome[accepted[i]] # "new"
        BY DEF Distinct
      <3> QED BY <1>3, <3>1, <3>2
    <2>3. \A i \in 1..Len(accepted') : outcome'[accepted'[i]] \in {"accepted", "ok", "failed"}
      BY <1>3, <2>1, <2>2
    <2>4. ASSUME NEW i \in 1..Len(accepted'), NEW j \in 1..Len(accepted'),
                 accepted'[i] = accepted'[j]
          PROVE  i = j
      <3>1. CASE i \in 1..Len(accepted) /\ j \in 1..Len(accepted)
        <4>1. accepted[i] = accepted[j]
          BY <2>2, <2>4, <3>1
        <4> QED BY <3>1, <4>1 DEF Distinct
      <3>2. CASE i \in 1..Len(accepted) /\ j = Len(accepted) + 1
        BY <2>2, <2>4, <3>2
      <3>3. CASE i = Len(accepted) + 1 /\ j \in 1..Len(accepted)
        BY <2>2, <2>4, <3>3
      <3> QED BY <2>1, <3>1, <3>2, <3>3
    <2> QED BY <2>3, <2>4 DEF Distinct
  <1> QED BY <1>2, <1>3, HistoryEnd

LEMMA NextSpare ==
    ASSUME OInv, Distinct, Spare, [ONext]_ovars,
           NEW j \in 1..Len(accepted'), Finished(accepted[j])'
    PROVE  \E w \in Worker : Overtook(w, j)'
  <1>1. Len(accepted) \in Nat
    BY DEF OInv, FirstInFirstOut
  <1>2. j \in 1..Len(accepted)
    <2>1. outcome'[accepted'[j]] \in {"ok", "failed"}
      BY DEF Finished
    <2>2. CASE accepted' = accepted
      BY <2>2
    <2>3. CASE /\ Len(accepted') = Len(accepted) + 1
               /\ outcome'[accepted'[Len(accepted) + 1]] = "accepted"
      <3>1. j # Len(accepted) + 1
        BY <2>1, <2>3
      <3> QED BY <1>1, <2>3, <3>1
    <2> QED BY <2>2, <2>3, HistoryEnd
  <1>3. \A i \in 1..(j - 1) : i \in 1..Len(accepted) /\ i # j
    BY <1>1, <1>2
  <1>4. \A i \in 1..(j - 1) : /\ accepted[i] \in Task /\ accepted'[i] = accepted[i]
                              /\ outcome[accepted[i]] # "new"
                              /\ Finished(accepted[i]) =>
                                     outcome'[accepted[i]] \in {"ok", "failed"}
    <2> TAKE i \in 1..(j - 1)
    <2>1. i \in 1..Len(accepted)
      BY <1>3
    <2>2. outcome[accepted[i]] # "new"
      BY <2>1 DEF Distinct
    <2> QED BY <2>1, <2>2, HistoryStep
  <1>5. CASE Finished(accepted[j])
    <2>1. PICK w \in Worker : Overtook(w, j)
      BY <1>2, <1>5 DEF Spare
    <2>2. ASSUME NEW i \in 1..(j - 1), outcome'[accepted'[i]] \notin {"ok", "failed"}
          PROVE  worker'[w] # accepted'[i]
      <3>1. /\ accepted[i] \in Task /\ accepted'[i] = accepted[i]
            /\ outcome[accepted[i]] # "new" /\ ~Finished(accepted[i])
        BY <1>4, <2>2
      <3>2. worker[w] # accepted[i]
        BY <2>1, <3>1 DEF Overtook
      <3>3. taskChan # <<>> => taskChan[1] # accepted[i]
        <4>1. SUFFICES ASSUME taskChan # <<>>  PROVE taskChan[1] # accepted[i]
          OBVIOUS
        <4>2. PICK k \in 1..Len(accepted) : k > j /\ taskChan[1] = accepted[k]
          BY <1>2, <1>5, <4>1, FinishedBeforeHead
        <4>3. k # i /\ i \in 1..Len(accepted)
          BY <1>1, <1>2, <1>3, <4>2
        <4> QED BY <4>2, <4>3 DEF Distinct
      <3>4. \/ worker'[w] = worker[w] \/ worker'[w] \notin Task
            \/ outcome[worker'[w]] = "new"
            \/ taskChan # <<>> /\ worker'[w] = taskChan[1]
        BY StepEffects
      <3> QED BY <3>1, <3>2, <3>3, <3>4
    <2> QED BY <2>2 DEF Overtook, Finished
  <1>6. CASE ~Finished(accepted[j])
    <2>1. accepted[j] \in Task /\ accepted'[j] = accepted[j]
      BY <1>2, HistoryStep
    <2>2. PICK w \in Worker : worker'[w] \notin Task
      <3>1. outcome'[accepted[j]] \in {"ok", "failed"}
        BY <2>1 DEF Finished
      <3> QED BY <1>6, <2>1, <3>1, StepEffects DEF Finished
    <2>3. \A i \in 1..(j - 1) : worker'[w] # accepted'[i]
      BY <1>4, <2>2
    <2> QED BY <2>3 DEF Overtook
  <1> QED BY <1>5, <1>6

LEMMA NextBInv == BInv /\ [ONext]_ovars => BInv'
  <1> SUFFICES ASSUME BInv, [ONext]_ovars PROVE BInv'
    OBVIOUS
  <1>1. OInv /\ Distinct /\ Spare /\ OInv'
    BY NextOInv DEF BInv
  <1>2. Distinct'
    BY <1>1, NextDistinct
  <1>3. ASSUME NEW j \in 1..Len(accepted'), Finished(accepted[j])'
        PROVE  \E w \in Worker : Overtook(w, j)'
    BY <1>1, <1>3, NextSpare
  <1>4. Spare'
    BY <1>3 DEF Spare
  <1> QED BY <1>1, <1>2, <1>4 DEF BInv

LEMMA Overtaking == BInv => BoundedOvertaking
  <1> SUFFICES ASSUME BInv, NEW j \in 1..Len(accepted), Finished(accepted[j])
               PROVE  Cardinality({i \in 1..(j - 1) : ~Finished(accepted[i])})
                          < Cardinality(Worker)
    BY DEF BoundedOvertaking
  <1> DEFINE Late == {i \in 1..(j - 1) : ~Finished(accepted[i])}
  <1>1. PICK w \in Worker : Overtook(w, j)
    BY DEF BInv, Spare
  <1>2. /\ Len(accepted) \in Nat /\ Len(taskChan) \in Nat /\ Len(taskChan) <= Len(accepted)
        /\ Started = Len(accepted) - Len(taskChan)
    BY DEF BInv, OInv, IInv, TypeOK, FirstInFirstOut, Started
  <1>3. ASSUME NEW i \in Late
        PROVE  i \in 1..Len(accepted) /\ \E v \in Worker \ {w} : worker[v] = accepted[i]
    <2>1. j <= Started
      BY FinishedBeforeHead DEF BInv
    <2>2. i \in 1..Started /\ i \in 1..Len(accepted)
      BY <1>2, <2>1
    <2>3. PICK v \in Worker : worker[v] = accepted[i]
      BY <2>2 DEF BInv, OInv, FirstInFirstOut
    <2>4. v # w
      BY <1>1, <2>3 DEF Overtook
    <2> QED BY <2>2, <2>3, <2>4
  <1> DEFINE holder == [i \in Late |-> CHOOSE v \in Worker \ {w} : worker[v] = accepted[i]]
  <1>4. \A i \in Late : holder[i] \in Worker \ {w} /\ worker[holder[i]] = accepted[i]
    BY <1>3
  <1>5. holder \in Injection(Late, Worker \ {w})
    <2>1. \A i, k \in Late : holder[i] = holder[k] => accepted[i] = accepted[k]
      BY <1>4
    <2>2. \A i, k \in Late : holder[i] = holder[k] => i = k
      BY <1>3, <2>1 DEF BInv, Distinct
    <2>3. holder \in [Late -> Worker \ {w}]
      BY <1>4
    <2> HIDE DEF holder, Late
    <2> QED BY <2>2, <2>3 DEF Injection, IsInjective
  <1>6. /\ IsFiniteSet(Worker \ {w}) /\ Cardinality(Worker) \in Nat
        /\ Cardinality(Worker \ {w}) = Cardinality(Worker) - 1
    BY QueueAssumption, FS_RemoveElement, FS_CardinalityType
  <1>7. IsFiniteSet(Late) /\ Cardinality(Late) <= Cardinality(Worker \ {w})
    <2> HIDE DEF holder, Late
    <2> QED BY <1>5, <1>6, FS_Injection
  <1>8. Cardinality(Late) \in Nat
    BY <1>7, FS_CardinalityType
  <1> QED BY <1>6, <1>7, <1>8

\* However many workers there are, a task is overtaken by fewer later ones than
\* there are workers before it is handled; with one worker by none (worker).
THEOREM OvertakingIsBounded == OSpec => []BoundedOvertaking
  BY InitBInv, NextBInv, Overtaking, PTL DEF OSpec
=============================================================================
