# A verification project for istio-llm-filter

istio-llm-filter is an Envoy (Golang) HTTP filter that routes LLM requests: it
parses an OpenAI request, chooses a backend host by load and by prompt-cache
locations, and keeps the load statistics of an external service,
Metadata-Center, up to date while the request runs. This directory holds TLA+
modules of its core logic, the TLC runs that check them, and theorems about them
that the TLA+ proof system checks. `PROJECT.json` maps every definition to the
lines it models and lists the runs, the mutants, the findings and the hazards.

## 1. Inventory: the system and its parts

| Part | State | Operations | Speaks to |
|---|---|---|---|
| Filter (`pkg/filter/filter.go`) | one `Filter` per request: `isStream`, `isIncreaseRecorded`, `isPromptLengthDeleted`, `promptDecreaseTimer`, `respHeader`, `dropRespData`, `firstTokenTimestamp` | the callbacks `DecodeHeaders/Data/Trailers`, `EncodeHeaders/Data/Trailers`, `OnDestroy`; a timer goroutine for non-streaming requests | Envoy calls it; it calls the transcoder, the balancer and the client |
| Metadata-Center client (`pkg/metadata/client.go`) | one global client behind a lock, two `sync.Once`, an HTTP connection pool | `IsEnabled`, `IsCacheEnabled`, `GetClientOrNoop`; updates (`AddRequest`, `DeleteRequest`, `DeleteRequestPrompt`, `SaveKVCache`) through the queue; queries (`QueryLoad`, `QueryKVCache`) synchronously, with timeouts | the queue, the service |
| Asynchronous queue (`pkg/metadata/async_queue.go`) | a buffered channel (1000 tasks), 100 worker goroutines | `Dispatch` (never blocks, drops when full), `worker`, `processTask`, `Close` | `Client.HandleRequest` |
| Load balancer (`pkg/loadbalancer`) | none between requests | `ChooseHost`: label filter, load query, cache query, score, sort, random choice in the best N percent | the client |
| OpenAI transcoder (`pkg/transcoder/openai`) | the parsed request, the backend protocol | parse, choose rule, extract prompt, recognise error bodies | routing rules |
| Routing rules (`pkg/config`, `pkg/filter/config.go`) | parsed configuration, read-only after its parse | sort, validate, merge and match the rules of a model | - |
| Prompt hash (`pkg/hash`) | none | chained hashes of the prompt's blocks | - |
| Metadata-Center | queued requests and prompt length per request and host, cache locations | outside this repository | - |

What makes each part correct, and what is hard about it:

* **Queue**: no accepted task is lost or handled twice; a task is dropped only
  when a buffer full of tasks is pending; no worker sleeps on a non-empty buffer;
  tasks leave in order. Hard: concurrent senders and receivers, hand-over past
  the buffer, the start, the close.
* **Filter**: what `addRequest` adds is taken back exactly once, however the
  request ends; the prompt deletion is neither forgotten nor repeated; a failed
  stream passes none of the data processed after it. Hard: Envoy may destroy a stream at any point, any
  dispatch may be dropped, and the timer goroutine shares the fields without a
  lock.
* **Client**: one client, queue and pool for the whole process; everybody gets
  the same answer to "is it enabled"; every method comes back, and a success
  means what it says. Hard: goroutines that start together, nested `Once`s, a
  read lock on the way to a write lock, a service that answers late or never
  while calls wait for its connections.
* **Client, queue and service together**: the statistics agree with the running
  requests unless a call was lost. Hard: timeouts with late effects, and the
  order in which several workers' calls arrive.
* **Balancer**: always a host, never a worse host past a better one, no pinning
  to an overloaded host by its cache. Hard: missing, negative and extreme
  counters, the steps of the dynamic weight, and the load that has changed
  between the query and the choice.
* **Routing rules**: the most specific matching rule wins in any configuration
  order; a model has one cluster; the balancer asks for loads exactly when the
  filter adds to them. Hard: an unstable sort, defaults filled in after the tuples were
  built, configurations that are pushed while requests run.
* **Hash and cache**: equal hashes are exactly the common blocks, and a hit has
  an answered prompt behind it. Hard: the last, shorter block, and saves that are
  late or lost.

## 2. The modules

| Module | Models | Kind |
|---|---|---|
| `TaskDelivery` | what `Dispatch` promises a caller | abstract specification |
| `AsyncQueue` | channel, workers, `Close` | component, implements `TaskDelivery` |
| `AsyncQueueOrder` | `AsyncQueue` with a history of accepted tasks | component with history |
| `LoadLease` | what the filter owes the host it puts load on | abstract specification |
| `Filter` | the life of requests in the filter, over `TaskDelivery` | component, implements `LoadLease` |
| `LoadAccounting` | `Filter` + `AsyncQueue` + Metadata-Center | composition |
| `InferenceLB` | one choice of a host | algorithm in steps |
| `LoadFeedback` | many choices at once, by load that is out of date | composition with `InferenceLB`'s scores |
| `ClientSingleton` | how goroutines come by the one client | component |
| `RemoteCall` | what a caller of the service may rely on | abstract specification |
| `ServiceCall` | `doRequest` and the connection pool | component, implements `RemoteCall` |
| `MetadataClient` | `ClientSingleton` + `ServiceCall` + the queue's promise + `noopClient` | composition |
| `Routing` | configurations, rules, and what a request's decisions are based on | component |
| `PromptCache` | prompt, block hashes, cache look-ups and saves | component |
| `...Proofs` | theorems about the module they are named after | proofs |
| `MC...` | instances for TLC | model checking |

### AsyncQueue and TaskDelivery

`taskChan` is the buffer, `worker[w]` is `Ready` (between two receives), `Parked`
(blocked in a receive), `Exited`, or the task being handled. `Dispatch` is the
`select` of the code: `HandOver` to a blocked receiver, `Enqueue`, `DropTask`
(the `default` case), or a panic after `Close` (`DispatchClosed`). Go hands a
value to a waiting receiver directly, and a send finds room only in the buffer or
with such a receiver: a worker that has not reached its receive yet does not
help, so tasks may be dropped while workers start or turn around. `Close` has no
caller in the repository and is modelled because it is exported.

`TaskDelivery` forgets the channel: a task is accepted (fewer than buffer plus
workers pending), dropped (at least a buffer full pending), or panics; an
accepted one is handled once. Property `DeliverySpec` shows that `AsyncQueue`
implements it, safety and liveness; `outcome` is the same variable in both, so
the refinement mapping is the identity.

### Filter and LoadLease

One record of `f` per request holds the fields that steer the filter. `stage` is
where Envoy stands: `new`, `body`, `replied` (local reply sent in the decode
phase), `forwarded`, `responding`, `ended`, `panicked`, `releasing` (inside
`OnDestroy`), `destroyed`, or `leaked` (`OnDestroy` panicked). `chunk` is the data
`EncodeData` works on, `NoChunk` between two callbacks: `EncodeData` is split at its
calls of `deletePromptLength`, so that the timer goroutine can run in between.
`held` says that Envoy holds data back after a `StopAndBuffer`; the last data is
processed together with it, while trailers send it on as it is.

The unsynchronised part is `deletePromptLength`, called by the first token, by
the end of a non-streaming response and by the timer. Its guard reads three
fields, then `promptDecreaseTimer` is checked for nil and read again for its `Stop`,
and in the end a task is dispatched and `isPromptLengthDeleted` set; another
goroutine may run between any two of these. So it has three steps: `StartDelete`
(guard, nil check), `StopTimerAt` (second read, `Stop`, store of nil) and
`DispatchDelete` (dispatch, flag). `OnDestroy` is split in the same way
(`StopAndRelease`). The accesses are not synchronised, so the second read may see
a nil that another goroutine has stored since, or, if the compiler kept the first
load or the store is not visible yet, may not: both are possible outcomes. The
former panics: in a callback it ends the callback, in `OnDestroy` it comes before the
`DeleteRequest` and the load is lost, and in the timer goroutine nobody recovers it
and the process ends (`Crashed`, after which nothing happens). A finer split shows
nothing new: a second `Stop` has no effect, and `Dispatch` followed by the store of
the flag is observed by others only through the flag. `TimerFires` and
`TimerDeletes` are separate, for `Stop` does not help once the timer has fired. The
timer is taken to fire after `addRequest` has stored it, at least 120 ms earlier.

Envoy's own behaviour is external: local replies of the decode phase pass
through `EncodeHeaders` with an error status and `EncodeData`; after the 503 of
the encode phase (`endStream` without data) only `OnDestroy` follows; a Go panic
in a callback is recovered by Envoy's Go support and the stream is destroyed;
`OnDestroy` may come between any two callbacks.

`LoadLease` says what remains when Envoy, the chunks and the timer are forgotten:
the load of a request is `none`, `held`, `returned` or `leaked`; it is taken once,
given back once, leaked only to a full queue or a panic, and never held forever. The
refinement mapping `LeaseOf` reads the fates of the request's add and delete, and
whether a panic has come before the delete.

### LoadAccounting

A step of `Filter` that changes the fate of a task is at the same time a
`Dispatch` of the real queue. That `Filter` may be checked alone against the
promise is what `DeliverySpec` justifies. A worker's call can be served while
the worker holds the task, or, after the worker gave up (`failed`), at any later
time or never; a success is reported only after the service acted. `entry` is
what the service counts for a request: `prefill` (request and prompt), `decode`
(request only) or `absent`.

`NoGhostLoad` lists why a request that is over may still be counted. A dropped or
failed delete and an add that failed and came late are on the list: the code does
not prevent them and no property claims it does. The property says that nothing
else leaves a load behind.

### InferenceLB and LoadFeedback

The steps of `ChooseHost`: the load query with a failure branch, the cache query
(no hits stands for a failure, a rule that is not cache-aware or no prompt), the
score, the sort and the random pick. Scores are integers over the common
denominator of the three normalised terms. The sort is unstable, so any set of
`CandidateNum` hosts that a descending sort may put first is possible.

`LoadFeedback` lets several requests ask, choose, and update the statistics at the
same time, with the scores of `InferenceLB`. Updates are in flight until they are
served in any order, or lost. `blind[r]` collects the requests whose load `r`
cannot know: those not settled when it asked, and those that moved since.

### ClientSingleton, RemoteCall, ServiceCall and MetadataClient

`at` is each goroutine's place in `IsCacheEnabled`, `IsEnabled`, `GetClientOrNoop`
and `GetClient`. A `sync.Once` is `fresh`, `running` (others wait) or `done`. The
`RWMutex` keeps new readers out once a writer has announced itself, as Go's does;
a step of the code between two lock operations is a step of the model.

A call of `ServiceCall` waits for a connection (reuse an idle one, or dial below
`MaxConnsPerHost`), is sent, answered and read, and may give up at each place
before that; a connection is given back when the body has been read, or closed
after a failure, later. The service acts on a request it has at any time, in time
or not. `RemoteCall` is what remains for a caller: a success has taken effect, a
failure says nothing, each call takes effect once at most and returns.

`MetadataClient` composes them: a caller that has its client queries through it
(its own call) or updates through it (the queue takes or drops the task, a worker
makes the call); both share the connections. With Metadata-Center disabled,
`NoopReplies` answers.

### Routing

A header is a pair, a rule's headers a set. `Parsed` is what `Parse` may make of a
configuration (the sort of rules with as many headers is not determined),
`PushListener` and `PushRoute` put it in force if it is valid, `NewRequest`
(`Factory`) merges the two and keeps the result in the filter, and
`ProcessRequest` derives from it all that a request's decisions use: the rule, the
context of the balancer, what it asks Metadata-Center and is told (`load` and `cache`
are `none` when not asked, `known` or `failed`; the empty client fails every query),
the hash, and what becomes of the add (`none`, `dropped` by the full queue,
`recorded`). A host may be chosen without its load although the request is added,
and the reverse; what the code does keep together is that the balancer asks exactly
when the filter adds (`AskedAsAdded`), although one reads its context and the other
the configuration. The rules a tuple points to are shared
with the validation, which is why defaults filled in after the sort are seen.

### PromptCache

A message is a sequence of parts, a text a sequence of characters. `PromptToHash`
writes block by block and takes the sum after each; the 64-bit sum is taken to be
free of collisions, i.e. the sum is what was written. The store of Metadata-Center
keeps the hashes saved for each host; a look-up finds the leading ones.

## 3. The runs

| Run | Question | Instance |
|---|---|---|
| `queue` | Does the queue keep its promise and its order? | 4 tasks, 2 workers, buffer 2; the buffer fills up while workers start, hand-overs, drops and a close all occur |
| `filter` | Does a request account for itself on every path? | 1 request, all kinds (streaming, load-aware, hashed), all statuses and chunks, with and without hosts; 3 workers and no buffer, so that each of up to six tasks may be accepted or dropped |
| `load_timer` | Are the statistics right, and do they settle, with the real queue between filter and service? | 1 request of any kind, 1 worker, buffer 1, so that its own tasks fill the queue |
| `choice` | Is every choice sensible? | 3 hosts, counters on both sides of each threshold, 3 percentages, all cache answers of 2 blocks |
| `herd` | How wrong is the load that concurrent requests choose by? | 4 requests, 2 hosts, default weights and percentage, one request may lose an update |
| `client` | One client for all, its limits kept, everybody served? | 3 callers that query, update and ask for the cache; 1 connection, 1 worker, no buffer; Metadata-Center on or off |
| `routing` | Which rule, which cluster, which decisions, while configurations change? | 2 requests, 2 pushes of 10 configurations to either place, 4 sets of request headers, Metadata-Center on; queries and adds may fail |
| `cache` | Do the hashes find what was saved, and only that? | 3 requests, 2 hosts, 7 prompts with blocks of two characters, one location per query |
| `load_restored`, `filter_stream_error`, `filter_error_trailers`, `routing_labels` | Findings, see section 5 | as above; `load_restored` has two workers |

Why the bounds suffice. Requests do not share any state in the filter; they meet
only in the queue, which the tasks of one request already fill when it has room
for two, and in the load that they choose by, which is `herd`'s subject:
`DriftExplained` and `HerdIsWhatIsInFlight` cover several requests whose updates
overtake and lose one another. Overtaking and hand-over need two workers, and four
tasks are one more than buffer and one worker hold. The weights of `choice` are
the defaults (2, 1, 3); the floor of the prompt length is 2 instead of 1024, and
the prompt lengths lie on both sides of it; the queue lengths give differences on
both sides of the weight's steps at 5 and 10. Three callers are enough for one to
create the client, one to wait for the lock and one to read; with one connection
and one worker, two of them always compete. In `routing` two headers give rules
that overlap in every way, in both orders of specificity; two pushes are enough
for a request to outlive its configuration. The prompts of `cache` share no block,
one or all, end with a block or within one, and have the same blocks in another
order. Responses are not bounded in length: the states of the filter repeat.
`MaxPushes` (pushes of configurations) and `MaxLost` (requests that lose updates)
are the only counters with a bound.

`NoGhostLoad` and `PromptReleased` are checked with one worker because they do not
hold with more: that is what `load_restored` shows. They say what a deployment
gets that sets the worker count to one. Deadlock is not checked: all these systems
stop when every request is over and every task handled, or when the process has
ended.

Fairness. Workers are scheduled fairly and a handler always returns, as its
context has a timeout (`async_queue.go:90`). Callbacks that have started run on,
as do goroutines in the client, and a goroutine that is blocked is woken when what
it waits for comes. The deadline of a call is met (`GiveUp` is fair), and a free
worker takes what is queued. `OnDestroy` is strongly fair: every HTTP stream ends,
and Envoy destroys its filter, although a stream of chunks keeps `OnDestroy` from
being continuously possible. Dispatches, the service and the connection pool owe
nothing: a request may never come, a call may never be answered. Nothing is
assumed about when the timer fires, and nothing is owed by a process that a panic
has ended. `herd`, `routing`, `cache` and `choice` check safety only.

Each property of a passing run has a mutant next to the definition it mutates
(marked `Mutant:`), a plausible bug with which the property fails.

## 4. What is proved

Every invariant and every action property of the passing runs is a theorem, for
every value of the constants that satisfies the modules' named assumptions (finite
sets where things are counted, natural bounds, values that tell absence apart, at
least one host to choose from; for `Routing`, also that a rule with its default
backend is again a rule). The inductive invariants were checked by TLC before they
were proved.

* `AsyncQueueProofs`: `TypeCorrect`, `NoTaskLostOrDoubled`, `WorkersWake`,
  `DeliverySafe`, `TakenInOrder`, `OvertakingIsBounded`. The inductive invariant is
  the conjunction of the first three: that a hand-over does not double a task needs
  the fates of the tasks, and that it does not jump the queue needs that nobody is
  parked while the buffer holds a task. `DeliverySafe` is the safety part of the
  refinement of `TaskDelivery`: by `HeldOnce` the accepted tasks are those in the
  buffer, which all differ, and those of the busy workers, so that their number is
  bounded by both. For the order, the history grows exactly with the buffer, or a
  task is handed over, and then the buffer is empty by `NoLostWakeup`, so that the
  buffer stays the tail of the history. `OvertakingIsBounded` counts: the worker
  that has handled a task takes only later ones from then on (`Spare`), so that each
  earlier, unhandled task is held by one of the other workers, and by one only as no
  task is accepted twice.
* `FilterProofs`, about `Filter`: `FilterTypes`, `LoadBracketed`, `LeaseSafe`,
  `ErrorsCut`, `PromptRemembered`, `PromptDeletedOnce`, `DestroyIsQuiet`,
  `NilTimerIsRace`.
  `AddBracketedByDelete` is not inductive alone: `Bracket` adds that the flag
  `isIncreaseRecorded` is set exactly when the add was accepted and only for
  load-aware requests, that nothing was dispatched before the body was processed,
  and that data is being processed only while `responding`, so that no later
  callback revives a destroyed request. Steps are grouped by what they dispatch:
  nothing (`QuietSteps`), the add, other tasks, the delete, and the handling of a
  task. `LeaseSafe` is the safety part of the refinement of `LoadLease`, from the
  same invariant: only the add and the delete of a request move its lease.
  `ErrorsCut` holds because the flag `dropRespData` of an emptied response is never
  taken back (`Dropping`), so that only `EncodeTrailers`, which does not look at it,
  passes data that was held back. `DestroyIsQuiet`: `OnDestroy` of a recorded request
  stops its timer, and what is left is the goroutine of a timer that had fired.
  `NilTimerIsRace` needs `Race`: who stands between the two reads while
  `promptDecreaseTimer` is nil has the other side past them, a callback or
  `OnDestroy` the goroutine of the fired timer, and that goroutine a callback or
  `OnDestroy`. The invariant `Prompt` orders the three call sites of
  `deletePromptLength`: a timer exists only for a recorded, non-streaming request,
  the first token's call comes before the end's and is over when the end's begins,
  and the flag `isPromptLengthDeleted` is set exactly when the queue accepted a
  deletion. The timer's call is under no order: that is why the properties are about
  callbacks and about what a call left behind.
* `FilterProofs`, about `LoadAccounting`: `FiltersOnRealQueue`, for any number of
  workers, says that the filters with the real queue take only the steps they take
  with its promise, so that all that is proved of `Filter` holds here; it needs the
  count behind `DeliverySafe`. `OneWorkerNoGhost` and `OneWorkerReleasesPrompt` have
  the hypothesis `SingleWorker` (any two workers are the same), without which
  `load_restored` refutes them, and hold for any number of requests and any buffer.
  The invariant `AInv` has the queue's and the filter's invariants, and `InOrder`: a
  deletion of a request stands behind its add in the buffer, or the add has been
  handled. A single worker takes them in this order, so that the service, which acts
  on nothing that no worker has begun (`ServedBegun`), acts on the deletion last,
  unless the add failed and came late, which the properties name (`Books`).
* `InferenceLBProofs`: `ChoiceTypes`, `BetterHostsFirst`, `HostAlwaysFound`,
  `CacheCannotPin`, `ChoiceNeverStuck`. Each term of the score grows with what it
  weighs, strictly if its weight is not zero, also with negative queues, as the
  ranges that the code divides by (`Delta`, `MaxPrompt`) are positive whatever the
  reports. `CacheCannotPin`: beyond five requests per unit of the cache weight the
  dynamic weight exceeds the cache weight, so that the term of the longest queue
  exceeds that of a complete hit. `ChoiceNeverStuck`: the best of the other hosts
  can always be the next candidate, so that a descending sort has an outcome for
  every number of candidates.
* `LoadFeedbackProofs`: `FeedbackTypes`, `DriftHasACause`, `HerdIsBounded`.
  `FeedbackTypes` says that updates exist only for recorded requests; a report counts
  requests by its definition, so nothing is shown about negative counters. `Course`
  follows the updates of a request: which are in flight in each stage, and what the
  service's entry is when all that were sent have arrived in order.
  `HerdIsWhatIsInFlight` adds `Snapshot`: what a request was told of a host lies
  between the number of requests on it that have not moved since and that number
  plus those in `blind`. A host that is better by more than the unknown is then
  reported better, scores higher by the lemmas of `InferenceLBProofs`, and as many
  as `CandidateNum` of them would have kept the chosen one from the candidates.
* `PromptCacheProofs`: `HashesArePrefixes`, `CacheTypes`, `LookupsAreExact`,
  `HitsHaveCauses`. `HashesArePrefixes` says what the recursion of `PromptToHash`
  computes for every text: the function of the prefixes satisfies the recursion, and
  the least place where another one differs refutes itself. Two prefixes that end in
  different blocks differ in length, so that no hash matches out of its place
  (`MatchesInPlace`), and a shared block has all earlier ones shared with it
  (`EarlierShared`). The invariant `Provenance` says that the store is the union of
  the hashes of the saved prompts, and that these have been answered.
* `MetadataClientProofs`, about `ClientSingleton`: `SingletonTypes`, `OnlyOneClient`,
  `EverybodySameAnswer`. The invariant ties the lock to the places of the callers,
  the `Once`s to who has passed them, and says that the one client is global or about
  to become it. About the composition: `SharedClient`, `ProcessKeepsLimits`,
  `SharedPromiseSafe`. Every step of the composition is a step or a stutter of both
  parts, so that their invariants hold together; that only the client that was made
  has connections and workers gives `LimitsOfOneClient` from the two.
* `ServiceCallProofs`: `CallTypes`, `PoolStaysBounded`, `PromiseSafe` (the safety
  part of the refinement of `RemoteCall`), for any calls, clients and services.
* `RoutingProofs`: `RoutingTypes`, `SpecificRuleWins`, `RefusalsJustified`,
  `OneCluster`, `QueriesAndAddsAgree`, `AddedIsReleased`. `ParsedSound` says
  what sort and validation make of a configuration, `FirstMatch` which rule a
  request gets from it; that the first match exists is the least element of a set
  of naturals, taken from the well-foundedness of `<`.

Induction over naturals is done through least elements (`LeastElement`), from the
well-foundedness of `<`, as the library's induction theorems take an operator.

Only model-checked: liveness under fairness, which is out of the prover's reach:
`DeleteSettled`, `EveryCallerServed`, `UpdatesSent` and the liveness parts of
`DeliverySpec`, `LeaseKept` and `PromiseKept`, whose safety parts are proved.

## 5. Findings

1. **Load that stays for good** (`load_restored`, `async_queue.go:83`). With the
   default of 100 workers the POST and the DELETE of a short request can be in
   flight together. If the DELETE is served first, both calls succeed and the
   request stays counted; `docs/flowchart.md:809` says the counters are restored.
2. **A panic on the error body of a stream** (`filter_stream_error`,
   `filter.go:392`). `EncodeHeaders` returns for an error status before it keeps
   the header; an error body then sets a status on a nil header. The comment at
   `filter.go:391` promises an error status and dropped data.
3. **Data after a stream error goes on at trailers** (`filter_error_trailers`,
   `filter.go:274`). After the error the filter holds the following data back, to
   empty it at the end; `EncodeTrailers` lets it go unread, against the same comment
   at `filter.go:391`.
4. **Labels without effect** (`routing_labels`, `filter.go:328`). The label
   selector and the LoRA options of a rule are built (`transcoder.go:282`) but
   never reach the balancer's context, so `filterHostsBySelector` never runs;
   `docs/design.md:643` says hosts are filtered first.

Met while reading, without a run:

* As shipped `getClusterHosts` returns no hosts (`filter.go:365`, a TODO), so
  every well-formed request is answered 404; the models assume the hosts it is
  meant to return.
* The dynamic weight is rounded up (`inference_lb.go:245`), `docs/design.md:350`
  does not round. When `QueryLoad` fails, all hosts are returned without a cache
  query (`inference_lb.go:91`), where `docs/design.md:718` and
  `docs/flowchart.md:482` speak of a choice by cache.
* An omitted field of a load balancing rule reaches the balancer as 0, not as the
  default that `docs/design.md:932` lists; `algorithm: random` and `round_robin`
  (`docs/design.md:614`) fall back to the inference balancer; the default candidate
  percentage is 5, where `docs/design.md:1084` says 10.
* An unknown model is answered 400, where `docs/usage.md:341` says 404; the 503 of
  `docs/flowchart.md:767` for a failed transcoding is not sent.
* `promptDecreaseTimer` is read and written by two goroutines without a lock
  (`filter.go:480-482`, `502-504`), and the second read may find nil. The timer is not
  stopped in time then, and the panic ends the process or the request's accounting;
  `NilTimerNeedsRace` says exactly when. No document claims anything about it.
* The KV cache is saved for any status below 400 (`filter.go:222`); the comment in
  the line above says for 200 only.
* Bodies and responses that end in trailers bypass the filter's processing, as
  `DecodeTrailers` and `EncodeTrailers` model it.
  `failoverRetry` is read and never used. `IsVlModel` is set and never used, and
  images and roles leave no trace in the hash. A null entry among the rules of a
  model panics in `Parse`.

## 6. Not modelled, and why

* Text and wire formats (JSON, SSE, headers, logs, token counts, the formatting of
  error bodies): no state depends on them.
* The values of timeouts: a timeout may strike at any time. `MaxConns` of 0, which
  means no limit, and what the transport does beyond counting connections.
* The same header listed twice in a rule counts twice in the sort; the model takes
  the headers for a set.
* Collisions of the 64-bit hash; float rounding in scores.
* The registry of balancers, which holds one type, and the plugin entry: they run
  once, without state.
* Metadata-Center is outside the repository: only what its calls do to the
  statistics and the cache locations is modelled, not its own failures and restarts.

## 7. Plan

Done, in this order: queue, filter, their composition, the balancer, routing, the
client, the cache, the herd, the refinements of `TaskDelivery`, `LoadLease` and
`RemoteCall`, and the theorems of section 4. What is left:

1. `LoadAccounting` with many workers: a theorem that names the overtaking of the
   add by the delete as the only further cause of an entry that stays.
2. `LoadFeedback` with hashed prompts, so that the choice by load and the choice by
   cache pull against each other over several requests.
