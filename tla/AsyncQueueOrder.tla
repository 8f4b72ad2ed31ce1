-------------------------- MODULE AsyncQueueOrder ---------------------------
(***************************************************************************)
(* AsyncQueue with a history of the accepted tasks, for what the queue     *)
(* promises, and does not promise, about order.                            *)
(***************************************************************************)
EXTENDS AsyncQueue

VARIABLE accepted    \* every task accepted so far, in the order of acceptance

ovars == <<vars, accepted>>

OInit == Init /\ accepted = <<>>

\* A dispatched task joins the history when it is accepted.
ODispatch(t) ==
    /\ Dispatch(t)
    /\ accepted' = IF outcome'[t] = "accepted" THEN Append(accepted, t) ELSE accepted

ONext ==
    \/ \E t \in Task : ODispatch(t)
    \/ (\E w \in Worker : WorkerStep(w)) /\ UNCHANGED accepted
    \/ Close /\ UNCHANGED accepted

OSpec == OInit /\ [][ONext]_ovars /\ Fairness

-----------------------------------------------------------------------------
Started == Len(accepted) - Len(taskChan)
Finished(t) == outcome[t] \in {"ok", "failed"}

\* Tasks leave the buffer in the order in which they were accepted: the
\* buffer is always the tail of the accepted tasks, also across hand-overs,
\* and every task before that tail has been taken by a worker.
FirstInFirstOut ==
    /\ accepted \in Seq(Task)
    /\ Len(taskChan) <= Len(accepted)
    /\ \A i \in 1..Len(taskChan) : taskChan[i] = accepted[Started + i]
    /\ \A i \in 1..Started :
           Finished(accepted[i]) \/ \E w \in Worker : worker[w] = accepted[i]

\* The order of completion is weaker: when a task has been handled, fewer
\* tasks accepted before it are still unhandled than there are workers.  With
\* one worker tasks complete in dispatch order; with more they may not.
BoundedOvertaking ==
    \A j \in 1..Len(accepted) :
        Finished(accepted[j]) =>
            Cardinality({i \in 1..(j - 1) : ~Finished(accepted[i])}) < Cardinality(Worker)
=============================================================================
