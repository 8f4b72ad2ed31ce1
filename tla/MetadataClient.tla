--------------------------- MODULE MetadataClient ---------------------------
(***************************************************************************)
(* pkg/metadata/client.go as its users meet it: goroutines come by the     *)
(* client (ClientSingleton), query Metadata-Center through it or have it   *)
(* update something, through the client's queue and workers, and all the   *)
(* calls share the client's connections (ServiceCall).  With Metadata-     *)
(* Center disabled they get the empty client, which answers by itself.     *)
(***************************************************************************)
EXTENDS ClientSingleton

CONSTANTS MaxConns,    \* METADATA_CENTER_CLIENT_MAX_IDLE_CONNS
          WorkerCount, \* METADATA_CENTER_WORKER_COUNT
          QueueSize    \* METADATA_CENTER_QUEUE_SIZE

VARIABLES phase, pool, busy, idle, service,    \* of ServiceCall
          queued,    \* the updates accepted by a client's queue and not taken
          reply      \* what the client's method has returned to each caller

\* One call for each caller: its query, or its update as a worker sends it.
Calls == INSTANCE ServiceCall WITH
             Call <- Caller, Client <- Caller, NoPool <- NoClient

ASSUME ClientAssumption ==
    /\ Calls!CallAssumption
    /\ WorkerCount \in Nat \ {0} /\ QueueSize \in Nat

callVars == <<phase, pool, busy, idle, service>>
useVars == <<callVars, queued, reply>>
mvars == <<singletonVars, useVars>>

MInit ==
    /\ Init
    /\ Calls!Init
    /\ queued = {}
    /\ reply = [c \in Caller |-> "none"]

Replies(c, answer) ==
    /\ reply[c] = "none"
    /\ reply' = [reply EXCEPT ![c] = answer]

\* c was given a client for its job.
Uses(c, work) == at[c] = "returned" /\ job[c] = work /\ reply[c] = "none"

\* The updates that the workers of client k are sending.
Sending(k) ==
    {c \in Caller : job[c] = "update" /\ got[c] = k
                    /\ phase[c] \in {"waiting", "sent", "accepted", "refused"}}

\* The updates of the queue of client k, in its buffer or with its workers.
PendingAt(k) == {c \in queued : got[c] = k} \cup Sending(k)

-----------------------------------------------------------------------------
\* QueryLoad and QueryKVCache: the caller makes the call itself.
Query(c) ==
    /\ Uses(c, "query") /\ got[c] \in clients
    /\ Calls!Begin(c, got[c])
    /\ UNCHANGED <<singletonVars, queued, reply>>

\* Its result is the method's.
QueryReplies(c) ==
    /\ Uses(c, "query") /\ phase[c] \in {"ok", "failed"}
    /\ Replies(c, phase[c])
    /\ UNCHANGED <<singletonVars, callVars, queued>>

\* AddRequest, DeleteRequest, DeleteRequestPrompt and SaveKVCache: nothing is
\* known but that the queue took the task, or dropped it when it was full.
Update(c) ==
    /\ Uses(c, "update") /\ got[c] \in clients
    /\ \/ /\ Cardinality(PendingAt(got[c])) < QueueSize + WorkerCount
          /\ queued' = queued \cup {c} /\ Replies(c, "ok")
       \/ /\ Cardinality(PendingAt(got[c])) >= QueueSize
          /\ Replies(c, "failed") /\ UNCHANGED queued
    /\ UNCHANGED <<singletonVars, callVars>>

\* A free worker of the client takes a task and sends it (HandleRequest).
TakeUpdate(c) ==
    /\ c \in queued
    /\ Cardinality(Sending(got[c])) < WorkerCount
    /\ queued' = queued \ {c}
    /\ Calls!Begin(c, got[c])
    /\ UNCHANGED <<singletonVars, reply>>

\* noopClient: updates succeed at once and without effect, queries fail.
NoopReplies(c) ==
    /\ got[c] = Noop
    /\ \/ Uses(c, "query") /\ Replies(c, "failed")
       \/ Uses(c, "update") /\ Replies(c, "ok")
    /\ UNCHANGED <<singletonVars, callVars, queued>>

-----------------------------------------------------------------------------
UserStep(c) ==
    \/ Query(c) \/ QueryReplies(c)
    \/ Update(c)
    \/ NoopReplies(c)

MNext ==
    \/ Next /\ UNCHANGED useVars
    \/ \E c \in Caller : UserStep(c) \/ TakeUpdate(c)
    \/ Calls!CallStep /\ UNCHANGED <<singletonVars, queued, reply>>

\* Goroutines run on, deadlines are met, and a free worker takes what is
\* queued; neither the service nor the pool has to do anything.
MFairness == \A c \in Caller :
    /\ WF_mvars(CallerStep(c) /\ UNCHANGED useVars)
    /\ WF_mvars(UserStep(c))
    /\ WF_mvars(TakeUpdate(c))
    /\ WF_mvars(Calls!GiveUp(c) /\ UNCHANGED <<singletonVars, queued, reply>>)

MSpec == MInit /\ [][MNext]_mvars /\ MFairness

-----------------------------------------------------------------------------
\* The whole process keeps to the limits that are configured once: however
\* many goroutines start to use Metadata-Center at the same time, only the one
\* client ever has connections or sends updates, over no more connections than
\* its pool and by no more workers than its queue may have (GetClient,
\* NewClient).
LimitsOfOneClient ==
    \A k \in Caller :
        /\ Calls!Connections(k) =< MaxConns
        /\ Cardinality(Sending(k)) =< WorkerCount
        /\ Calls!Connections(k) > 0 \/ Sending(k) # {} => clients = {k}

\* Calls through the shared client keep the promise of RemoteCall (doRequest).
PromiseKept == Calls!PromiseKept

\* Every method of the client comes back, also when all the connections are
\* held by calls that the service leaves without an answer (the Once, the lock
\* and the deadline of doRequest together).
EveryCallerServed ==
    \A c \in Caller :
        <>(at[c] = "returned" /\ (job[c] # "cache" => reply[c] # "none"))

\* An update that was accepted is sent in the end, or its time runs out.
UpdatesSent ==
    \A c \in Caller : c \in queued ~> phase[c] \in {"ok", "failed"}
=============================================================================
