---------------------------- MODULE LoadFeedback ----------------------------
(***************************************************************************)
(* Requests that choose their hosts by load at the same time: each asks    *)
(* Metadata-Center for the load (Client.QueryLoad), chooses a host by the  *)
(* scores of pkg/loadbalancer, and has its own load added, its prompt and  *)
(* later the load deleted by the filter, through updates that arrive late, *)
(* in any order, or not at all.  So the load that a choice is based on is  *)
(* never quite the load at the time of the choice.                         *)
(*                                                                         *)
(* All the requests are streams of a load-aware model with prompts of      *)
(* equal length, not hashed; what Filter and AsyncQueue do to the updates  *)
(* of one request is taken from LoadAccounting.                            *)
(***************************************************************************)
EXTENDS Integers, FiniteSets

CONSTANTS Request, Host,
          Percent,          \* the candidate percentage of the rule
          Prompt,           \* the length of every prompt
          MaxLost,          \* bound on the requests that lose an update
          RequestLoadWeight, PrefillLoadWeight, MinPromptLength,
          NoHost,
          NoAnswer          \* QueryLoad failed

ASSUME FeedbackAssumption ==
    /\ IsFiniteSet(Request) /\ IsFiniteSet(Host) /\ Host # {}
    /\ Percent \in Nat /\ MaxLost \in Nat
    /\ Prompt \in Nat \ {0} /\ MinPromptLength \in Nat \ {0}
    /\ RequestLoadWeight \in Nat \ {0} /\ PrefillLoadWeight \in Nat \ {0}
    /\ NoHost \notin Host

Ops == {"add", "deletePrompt", "delete"}

VARIABLES stage,      \* where each request stands
          host,       \* Filter.serverIp
          recorded,   \* Filter.isIncreaseRecorded
          seen,       \* the load that each request was told of, while it chooses
          blind,      \* whose load it cannot know, while it chooses
          inFlight,   \* updates in the queue, with a worker or at the service
          lost,       \* requests of which an update was dropped or failed
          overtaken,  \* requests of which an update arrived before an earlier one
          entry       \* Metadata-Center: the statistics of each request

requestVars == <<stage, host, recorded, seen>>
updateVars == <<inFlight, lost, overtaken, entry>>
vars == <<requestVars, blind, updateVars>>

Init ==
    /\ stage = [r \in Request |-> "new"]
    /\ host = [r \in Request |-> NoHost]
    /\ recorded = {}
    /\ seen = [r \in Request |-> NoAnswer]
    /\ blind = [r \in Request |-> {}]
    /\ inFlight = {}
    /\ lost = {} /\ overtaken = {}
    /\ entry = [r \in Request |-> "absent"]

-----------------------------------------------------------------------------
EntriesOf(h, states) == {q \in Request : host[q] = h /\ entry[q] \in states}

\* Mutant: requests that are past their prompt are not counted.
PrefillReport ==
    [h \in Host |-> [queued |-> Cardinality(EntriesOf(h, {"prefill"})),
                     prompt |-> Cardinality(EntriesOf(h, {"prefill"})) * Prompt]]

\* What the service answers to QueryLoad.
Report ==
    [h \in Host |-> [queued |-> Cardinality(EntriesOf(h, {"prefill", "decode"})),
                     prompt |-> Cardinality(EntriesOf(h, {"prefill"})) * Prompt]]

\* The scores of a choice from the load that a request has seen.
LB(load) == INSTANCE InferenceLB WITH
    stats <- load, percent <- Percent, cacheHits <- [h \in Host |-> 0],
    step <- "score", candidates <- {}, chosen <- NoHost,
    Reported <- {}, Absent <- NoAnswer, HashCount <- 1, CacheRadioWeight <- 0,
    Percents <- {Percent}

CandidateNum == LB(Report)!CandidateNum

\* The first CandidateNum hosts by score, or all when QueryLoad failed.
Candidates(r) ==
    IF seen[r] = NoAnswer THEN {Host}
    ELSE LB(seen[r])!TopCandidates(CandidateNum)

\* The requests of which the service may not have the right statistics.
Unsettled == {u.req : u \in inFlight} \cup lost \cup overtaken

\* Requests between their question and their choice do not see what changes.
Hide(r) ==
    blind' = [q \in Request |-> IF stage'[q] = "asked" THEN blind[q] \cup {r} ELSE {}]

MayLose == Cardinality(lost) < MaxLost

\* Dispatch on the queue: an update is under way, or dropped at once.
Dispatch(r, op) ==
    \/ inFlight' = inFlight \cup {[req |-> r, op |-> op]} /\ UNCHANGED lost
    \/ MayLose /\ lost' = lost \cup {r} /\ UNCHANGED inFlight

\* Mutant: without looking at isIncreaseRecorded.
DispatchAnyway(r, op) == Dispatch(r, op)

\* deletePromptLength and OnDestroy, guards.
DispatchIfRecorded(r, op) ==
    IF r \in recorded THEN Dispatch(r, op) ELSE UNCHANGED <<inFlight, lost>>

-----------------------------------------------------------------------------
\* QueryLoad: the answer is of now, the choice comes later.
AskLoad(r) ==
    /\ stage[r] = "new"
    /\ stage' = [stage EXCEPT ![r] = "asked"]
    /\ \/ seen' = [seen EXCEPT ![r] = Report]
       \/ UNCHANGED seen
    /\ blind' = [blind EXCEPT ![r] = Unsettled]
    /\ UNCHANGED <<host, recorded, updateVars>>

\* ChooseServer's choice, and addRequest.
Choose(r) ==
    /\ stage[r] = "asked"
    /\ \E top \in Candidates(r) : \E h \in top : host' = [host EXCEPT ![r] = h]
    /\ stage' = [stage EXCEPT ![r] = "prefill"]
    /\ Hide(r)
    /\ Dispatch(r, "add")
    /\ recorded' = IF inFlight' # inFlight THEN recorded \cup {r} ELSE recorded
    /\ seen' = [seen EXCEPT ![r] = NoAnswer]
    /\ UNCHANGED <<overtaken, entry>>

\* The first token: deletePromptLength.
FirstToken(r) ==
    /\ stage[r] = "prefill"
    /\ stage' = [stage EXCEPT ![r] = "decode"]
    /\ Hide(r)
    /\ DispatchIfRecorded(r, "deletePrompt")
    /\ UNCHANGED <<host, recorded, seen, overtaken, entry>>

\* Mutant: a request that ends before its first token is not deleted.
DestroyAnswered(r) ==
    /\ stage[r] \in {"prefill", "decode"}
    /\ stage' = [stage EXCEPT ![r] = "destroyed"]
    /\ Hide(r)
    /\ IF stage[r] = "decode" THEN DispatchIfRecorded(r, "delete")
                              ELSE UNCHANGED <<inFlight, lost>>
    /\ UNCHANGED <<host, recorded, seen, overtaken, entry>>

\* OnDestroy: decreaseRequest.
Destroy(r) ==
    /\ stage[r] \in {"prefill", "decode"}
    /\ stage' = [stage EXCEPT ![r] = "destroyed"]
    /\ Hide(r)
    /\ DispatchIfRecorded(r, "delete")
    /\ UNCHANGED <<host, recorded, seen, overtaken, entry>>

\* The service acts on an update.
Earlier(op) == CASE op = "add" -> {}
                 [] op = "deletePrompt" -> {"add"}
                 [] op = "delete" -> {"add", "deletePrompt"}

After(op, old) == CASE op = "add" -> "prefill"
                    [] op = "delete" -> "absent"
                    [] op = "deletePrompt" /\ old = "prefill" -> "decode"
                    [] OTHER -> old

Serve(u) ==
    /\ inFlight' = inFlight \ {u}
    /\ entry' = [entry EXCEPT ![u.req] = After(u.op, @)]
    /\ overtaken' = IF \E v \in inFlight : v.req = u.req /\ v.op \in Earlier(u.op)
                    THEN overtaken \cup {u.req} ELSE overtaken
    /\ UNCHANGED <<requestVars, blind, lost>>

\* The update never reaches the service.
Lose(u) ==
    /\ MayLose
    /\ inFlight' = inFlight \ {u}
    /\ lost' = lost \cup {u.req}
    /\ UNCHANGED <<requestVars, blind, overtaken, entry>>

Next ==
    \/ \E r \in Request :
           \/ AskLoad(r)
           \/ Choose(r)
           \/ FirstToken(r)
           \/ Destroy(r)
    \/ \E u \in inFlight : Serve(u) \/ Lose(u)

Spec == Init /\ [][Next]_vars

-----------------------------------------------------------------------------
\* The types of the requests and their updates; only a request whose add was
\* accepted has updates.
TypeOK ==
    /\ stage \in [Request -> {"new", "asked", "prefill", "decode", "destroyed"}]
    /\ host \in [Request -> Host \cup {NoHost}]
    /\ recorded \subseteq Request
    /\ seen \in [Request -> {NoAnswer} \cup [Host -> [queued : Nat, prompt : Nat]]]
    /\ blind \in [Request -> SUBSET Request]
    /\ inFlight \subseteq [req : recorded, op : Ops]
    /\ lost \subseteq Request /\ overtaken \subseteq Request
    /\ entry \in [Request -> {"absent", "prefill", "decode"}]

\* Once all the updates of a request have arrived in order, the service has it
\* right: an error in the load has a loss or an overtaking behind it.
Standing(r) == IF stage[r] \in {"prefill", "decode"} THEN stage[r] ELSE "absent"

DriftExplained ==
    \A r \in Request : r \notin Unsettled => entry[r] = Standing(r)

\* The requests that really run on a host, and those at their prompts; and how
\* much of either a choice may be wrong about.
Running(h) == Cardinality({q \in Request : host[q] = h /\ Standing(q) # "absent"})
Prefilling(h) == Cardinality({q \in Request : host[q] = h /\ Standing(q) = "prefill"})
Unknown(r, h) == Cardinality({q \in blind[r] : host[q] = h})

\* Host a is better than host b at this moment, by more than r cannot know.
ClearlyBetter(r, a, b) ==
    LET unknown == Unknown(r, a) + Unknown(r, b)
    IN  /\ Running(a) + unknown =< Running(b)
        /\ Prefilling(a) + unknown =< Prefilling(b)
        /\ Running(a) + unknown < Running(b) \/ Prefilling(a) + unknown < Prefilling(b)

\* However many requests choose at the same time, none takes a host when there
\* are CandidateNum hosts that are better by more than the requests whose
\* updates were not settled when it asked, or that moved on since: a herd is as
\* large as what is in flight, and does not grow from choice to choice
\* (QueryLoad before ChooseHost before addRequest).
HerdIsWhatIsInFlight ==
    [][\A r \in Request :
          stage[r] = "asked" /\ stage'[r] = "prefill" /\ seen[r] # NoAnswer =>
              Cardinality({a \in Host : ClearlyBetter(r, a, host'[r])}) < CandidateNum]_vars
=============================================================================
