--------------------------- MODULE LoadAccounting ---------------------------
(***************************************************************************)
(* The filters, the task queue and Metadata-Center together: what the load *)
(* statistics that steer the load balancer say of the running requests.    *)
(*                                                                         *)
(* Every filter step that dispatches is a step of the real queue, not of   *)
(* its promise.  A worker's HTTP call (Client.doRequest) can reach the     *)
(* service at any time after the worker took the task; when the call times *)
(* out or fails, the service may have acted on it, may act on it later, or *)
(* never.  Metadata-Center itself is not in this repository: it is         *)
(* modelled from the three calls the client makes.                         *)
(***************************************************************************)
EXTENDS Filter, Sequences

CONSTANTS Ready, Parked, Exited

ASSUME AccountingAssumption ==
    /\ {Ready, Parked, Exited} \cap Task = {}
    /\ Ready # Parked /\ Ready # Exited /\ Parked # Exited

VARIABLES taskChan, worker, closed,   \* the queue, which nothing closes
          served,                     \* tasks whose HTTP call the service acted on
          entry                       \* the service's statistics of each request

AQ == INSTANCE AsyncQueue

filterVars == <<f, stage, chunk, held, output, call, timer>>
queueVars == <<taskChan, worker, closed>>
serviceVars == <<served, entry>>
allVars == <<vars, queueVars, serviceVars>>

\* An entry counts one queued request and, until its deletion, its prompt.
EntryStates == {"absent", "prefill", "decode"}

LInit ==
    /\ Init
    /\ taskChan = <<>>
    /\ worker = [w \in Worker |-> Ready]
    /\ closed = FALSE
    /\ served = {}
    /\ entry = [r \in Request |-> "absent"]

-----------------------------------------------------------------------------
\* A filter step; the tasks it dispatches go through the channel.
FilterStep(r) ==
    /\ Step(r)
    /\ IF outcome' = outcome
       THEN UNCHANGED queueVars
       ELSE \E t \in Task : outcome'[t] # outcome[t] /\ AQ!Dispatch(t)
    /\ UNCHANGED serviceVars

\* A worker takes its next task, or blocks.
TakeTask(w) ==
    /\ AQ!Receive(w) \/ AQ!Park(w)
    /\ UNCHANGED <<filterVars, serviceVars>>

\* Mutant: a call that got no answer passes for a success.
FinishUnanswered(w) ==
    /\ \E result \in Queue!Results : AQ!Finish(w, result)
    /\ UNCHANGED <<filterVars, serviceVars>>

\* HandleRequest returns: without an error only after an answer, with an error
\* at any time.
FinishTask(w) ==
    /\ \/ worker[w] \in served /\ AQ!Finish(w, "ok")
       \/ AQ!Finish(w, "failed")
    /\ UNCHANGED <<filterVars, serviceVars>>

\* The service's statistics after a call: POST and DELETE of the load of a
\* request, DELETE of its prompt length; saved cache locations are not load.
After(t, old) ==
    CASE t.op = "AddRequest" -> "prefill"
      [] t.op = "DeleteRequest" -> "absent"
      [] t.op \in Sites /\ old = "prefill" -> "decode"
      [] OTHER -> old

\* The service acts on a call that is under way, or on one that the client has
\* given up.
Serve(t) ==
    /\ t \notin served
    /\ (\E w \in Worker : worker[w] = t) \/ outcome[t] = "failed"
    /\ served' = served \cup {t}
    /\ entry' = [entry EXCEPT ![t.req] = After(t, @)]
    /\ UNCHANGED <<vars, queueVars>>

\* What Metadata-Center has been sent it may act on when the process is gone.
LNext ==
    \/ /\ ~Crashed
       /\ \/ \E r \in Request : FilterStep(r)
          \/ \E w \in Worker : TakeTask(w) \/ FinishTask(w)
    \/ \E t \in Task : Serve(t)

LFairness ==
    /\ \A r \in Request :
           /\ WF_allVars(~Crashed /\ Continue(r) /\ FilterStep(r))
           /\ SF_allVars(~Crashed /\ OnDestroy(r) /\ FilterStep(r))
    /\ \A w \in Worker :
           /\ WF_allVars(~Crashed /\ TakeTask(w))
           /\ WF_allVars(~Crashed /\ FinishTask(w))

LSpec == LInit /\ [][LNext]_allVars /\ LFairness

-----------------------------------------------------------------------------
Answered(t) == outcome[t] = "ok"

\* A request is counted by the service only while the filter works on it, or
\* for a reason that can be named: its delete is still in the queue, was
\* dropped by the full queue or ended in an error, a panic came before it, or
\* its add ended in an error and came late.  This holds with a single worker.
NoGhostLoad ==
    \A r \in Request :
        entry[r] # "absent" =>
            \/ f[r].isIncreaseRecorded /\ stage[r] \notin Over
            \/ Abandoned(r)
            \/ outcome[DeleteRequestTask(r)] \in {"accepted", "dropped", "failed"}
            \/ outcome[AddRequestTask(r)] = "failed"

\* Once the response has begun and the calls for it have been answered, the
\* service no longer counts the prompt.  This holds with a single worker.
PromptReleased ==
    \A r \in Request, site \in Sites :
        Answered(AddRequestTask(r)) /\ Answered(DeletePromptTask(r, site)) =>
            entry[r] # "prefill"

\* At the end of a request its counters are restored: when the add and the
\* delete were both answered with success, the service has no entry for it.
LoadRestored ==
    \A r \in Request :
        Answered(AddRequestTask(r)) /\ Answered(DeleteRequestTask(r)) =>
            entry[r] = "absent"

\* The fate of every recorded request's delete is sealed in the end, unless a
\* panic comes before it.
DeleteSettled ==
    \A r \in Request :
        f[r].isIncreaseRecorded ~>
            \/ outcome[DeleteRequestTask(r)] \in {"dropped", "ok", "failed"}
            \/ Abandoned(r)
=============================================================================
