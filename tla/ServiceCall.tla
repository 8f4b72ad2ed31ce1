---------------------------- MODULE ServiceCall -----------------------------
(***************************************************************************)
(* pkg/metadata/client.go, doRequest: HTTP calls to Metadata-Center, each  *)
(* with a timeout, over the connections that the client's http.Transport   *)
(* keeps: MaxConnsPerHost of them at most, busy and idle ones together.    *)
(* The service may be slow, act after the client has given up, refuse or   *)
(* never answer.                                                           *)
(***************************************************************************)
EXTENDS Naturals, FiniteSets

CONSTANTS Call,        \* the calls
          Client,      \* the clients, each with a transport of its own
          MaxConns,    \* METADATA_CENTER_CLIENT_MAX_IDLE_CONNS
          NoPool       \* the client of a call that has not begun

\* What is asked of the constants, by MetadataClient in its own assumption.
CallAssumption ==
    /\ IsFiniteSet(Call)
    /\ MaxConns \in Nat \ {0}
    /\ NoPool \notin Client

VARIABLES phase,       \* where each call stands
          pool,        \* the client whose transport each call uses
          busy,        \* the calls with a connection of their own
          idle,        \* the number of idle connections of each client
          service      \* what the service has of each call

callVars == <<phase, pool, busy, idle, service>>

Init ==
    /\ phase = [c \in Call |-> "new"]
    /\ pool = [c \in Call |-> NoPool]
    /\ busy = {}
    /\ idle = [k \in Client |-> 0]
    /\ service = [c \in Call |-> "nothing"]

Become(c, p) == phase' = [phase EXCEPT ![c] = p]

BusyOf(k) == {c \in busy : pool[c] = k}

Connections(k) == Cardinality(BusyOf(k)) + idle[k]

-----------------------------------------------------------------------------
\* doRequest: the deadline runs, Do looks for a connection.
Begin(c, k) ==
    /\ phase[c] = "new"
    /\ Become(c, "waiting")
    /\ pool' = [pool EXCEPT ![c] = k]
    /\ UNCHANGED <<busy, idle, service>>

\* Do has a connection and sends the request.
Send(c) ==
    /\ busy' = busy \cup {c}
    /\ Become(c, "sent")
    /\ service' = [service EXCEPT ![c] = "request"]
    /\ UNCHANGED pool

\* An idle connection is used again.
Reuse(c) ==
    /\ phase[c] = "waiting" /\ idle[pool[c]] > 0
    /\ idle' = [idle EXCEPT ![pool[c]] = @ - 1]
    /\ Send(c)

\* Mutant: no limit is given to the transport.
DialAlways(c) ==
    /\ phase[c] = "waiting" /\ idle[pool[c]] = 0
    /\ Send(c)
    /\ UNCHANGED idle

\* A new connection, while MaxConnsPerHost allows it; otherwise Do waits.
Dial(c) ==
    /\ phase[c] = "waiting" /\ idle[pool[c]] = 0
    /\ Connections(pool[c]) < MaxConns
    /\ Send(c)
    /\ UNCHANGED idle

\* The service acts on a request that it has, in time or not.
Act(c) ==
    /\ service[c] = "request"
    /\ service' = [service EXCEPT ![c] = "acted"]
    /\ UNCHANGED <<phase, pool, busy, idle>>

\* The service answers 200 if it has acted, or something else, acted or not.
Answer(c) ==
    /\ phase[c] = "sent"
    /\ \/ service[c] = "acted" /\ Become(c, "accepted")
       \/ Become(c, "refused")
    /\ UNCHANGED <<pool, busy, idle, service>>

\* Mutant: the status is not looked at.
ReadAnswerOnly(c) ==
    /\ phase[c] \in {"accepted", "refused"}
    /\ busy' = busy \ {c}
    /\ idle' = [idle EXCEPT ![pool[c]] = @ + 1]
    /\ \/ Become(c, "ok")
       \/ Become(c, "failed")
    /\ UNCHANGED <<pool, service>>

\* The body is read, which gives the connection back, and then the status
\* decides; QueryLoad and QueryKVCache also fail on a body that they cannot
\* parse.
ReadAnswer(c) ==
    /\ phase[c] \in {"accepted", "refused"}
    /\ busy' = busy \ {c}
    /\ idle' = [idle EXCEPT ![pool[c]] = @ + 1]
    /\ \/ phase[c] = "accepted" /\ Become(c, "ok")
       \/ Become(c, "failed")
    /\ UNCHANGED <<pool, service>>

\* Mutant: the time spent waiting for a connection does not count.
GiveUpSent(c) ==
    /\ phase[c] \in {"sent", "accepted", "refused"}
    /\ Become(c, "failed")
    /\ UNCHANGED <<pool, busy, idle, service>>

\* The deadline, or the network: dialling, sending or reading fails. No call
\* is tried again (failoverRetry is read from the environment and not used).
GiveUp(c) ==
    /\ phase[c] \in {"waiting", "sent", "accepted", "refused"}
    /\ Become(c, "failed")
    /\ UNCHANGED <<pool, busy, idle, service>>

\* The transport closes the connection of a call that was given up, later.
CloseBroken(c) ==
    /\ phase[c] = "failed" /\ c \in busy
    /\ busy' = busy \ {c}
    /\ UNCHANGED <<phase, pool, idle, service>>

\* IdleConnTimeout, or the service closes an idle connection.
CloseIdle(k) ==
    /\ idle[k] > 0
    /\ idle' = [idle EXCEPT ![k] = @ - 1]
    /\ UNCHANGED <<phase, pool, busy, service>>

-----------------------------------------------------------------------------
\* Everything but the beginning of a call.
Proceed(c) ==
    \/ Reuse(c) \/ Dial(c)
    \/ Act(c) \/ Answer(c)
    \/ ReadAnswer(c) \/ GiveUp(c)
    \/ CloseBroken(c)

CallStep ==
    \/ \E c \in Call : Proceed(c)
    \/ \E k \in Client : CloseIdle(k)

Next ==
    \/ \E c \in Call, k \in Client : Begin(c, k)
    \/ CallStep

Spec == Init /\ [][Next]_callVars /\ \A c \in Call : WF_callVars(GiveUp(c))

-----------------------------------------------------------------------------
Phases == {"new", "waiting", "sent", "accepted", "refused", "ok", "failed"}

\* The types of the calls' state; a call keeps its connection while it is
\* under way, and after a failure until the transport has closed it.
CallTypeOK ==
    /\ phase \in [Call -> Phases]
    /\ pool \in [Call -> Client \cup {NoPool}]
    /\ \A c \in Call : phase[c] = "new" <=> pool[c] = NoPool
    /\ busy \subseteq Call
    /\ \A c \in Call : phase[c] \in {"sent", "accepted", "refused"} => c \in busy
    /\ \A c \in busy : phase[c] \in {"sent", "accepted", "refused", "failed"}
    /\ idle \in [Client -> Nat]
    /\ service \in [Call -> {"nothing", "request", "acted"}]

\* No client ever has more connections than configured, busy and idle ones and
\* those of timed-out calls together (MaxConnsPerHost).
PoolBound == \A k \in Client : Connections(k) =< MaxConns

\* What the callers of doRequest see of it.
Result(c) ==
    IF phase[c] = "new" THEN "none"
    ELSE IF phase[c] \in {"ok", "failed"} THEN phase[c] ELSE "pending"

Promise == INSTANCE RemoteCall WITH
               result <- [c \in Call |-> Result(c)],
               acted <- {c \in Call : service[c] = "acted"}

\* doRequest implements RemoteCall: success means the service has acted, and
\* every call returns, whatever the service and the pool do.
PromiseKept == Promise!Spec
=============================================================================
