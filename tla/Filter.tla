------------------------------- MODULE Filter -------------------------------
(***************************************************************************)
(* pkg/filter/filter.go: the life of HTTP requests in the LLM filter.      *)
(*                                                                         *)
(* Envoy drives one Filter object per request through its callbacks, one   *)
(* at a time.  A non-streaming request also has a timer goroutine that     *)
(* calls deletePromptLength without a lock while callbacks run.  So the    *)
(* two functions that meet there take several steps: the guard and the     *)
(* nil check of promptDecreaseTimer, the Stop on what a second read finds, *)
(* and the dispatch with the flag it sets.  A panic on the second read     *)
(* ends the process in the timer goroutine; Envoy recovers it in a         *)
(* callback.  Tasks for Metadata-Center go to the shared queue, used here  *)
(* through its promise, TaskDelivery.                                      *)
(***************************************************************************)
EXTENDS Naturals, FiniteSets

CONSTANTS Request,      \* the HTTP requests
          HostLists,    \* what getClusterHosts may return: sets of hosts
          Kinds,        \* the requests that occur: streaming or not, by the
                        \* rule of their model load-aware or not, and hashed
                        \* (cache-aware with a prompt) or not
          Chunks,       \* the response data that occurs
          Worker, QueueSize,
          NoChunk       \* no response data is being processed

\* Data is the last or not, and the JSON error body of a failed stream or not
\* (which GetResponseData tells for the OpenAI-compatible backends only).
AllChunks == [last : BOOLEAN, error : BOOLEAN]

ASSUME FilterAssumption ==
    /\ IsFiniteSet(Request)
    /\ IsFiniteSet(Worker)
    /\ QueueSize \in Nat
    /\ Kinds \subseteq [stream : BOOLEAN, loadAware : BOOLEAN, hashed : BOOLEAN]
    /\ Chunks \subseteq AllChunks
    /\ NoChunk \notin AllChunks

\* The call sites of deletePromptLength: the first token (recordTokenTime),
\* the end of a non-streaming response (EncodeData) and the timer.
Sites == {"token", "end", "timer"}

Task == [req : Request, op : {"AddRequest", "SaveKVCache", "DeleteRequest"} \cup Sites]

AddRequestTask(r) == [req |-> r, op |-> "AddRequest"]
SaveKVCacheTask(r) == [req |-> r, op |-> "SaveKVCache"]
DeleteRequestTask(r) == [req |-> r, op |-> "DeleteRequest"]
DeletePromptTask(r, site) == [req |-> r, op |-> site]

VARIABLES f,        \* the fields of each request's Filter
          stage,    \* where Envoy stands with each request
          chunk,    \* the response data EncodeData is working on
          held,     \* Envoy holds response data back (StopAndBuffer)
          output,   \* what the last processed response data became
          call,     \* the state of deletePromptLength at each call site
          timer,    \* the runtime timer behind promptDecreaseTimer
          outcome   \* what has become of each task in the queue

envoyVars == <<stage, chunk, held, output>>
vars == <<f, stage, chunk, held, output, call, timer, outcome>>

Queue == INSTANCE TaskDelivery

-----------------------------------------------------------------------------
\* The fields of the Filter struct that steer it: the request streams; its
\* model's rule is load-aware; its prompt was hashed; the add was accepted; a
\* prompt deletion was accepted; promptDecreaseTimer is not nil; the response
\* header is kept; the rest of the response is dropped; response data has come.
FilterState == [isStream : BOOLEAN, loadAware : BOOLEAN, hashed : BOOLEAN,
                isIncreaseRecorded : BOOLEAN, isPromptLengthDeleted : BOOLEAN,
                promptDecreaseTimer : BOOLEAN, respHeader : BOOLEAN,
                dropRespData : BOOLEAN, firstToken : BOOLEAN]

NewFilter == [isStream |-> FALSE, loadAware |-> FALSE, hashed |-> FALSE,
              isIncreaseRecorded |-> FALSE, isPromptLengthDeleted |-> FALSE,
              promptDecreaseTimer |-> FALSE, respHeader |-> FALSE,
              dropRespData |-> FALSE, firstToken |-> FALSE]

Init ==
    /\ f = [r \in Request |-> NewFilter]
    /\ stage = [r \in Request |-> "new"]
    /\ chunk = [r \in Request |-> NoChunk]
    /\ held = [r \in Request |-> FALSE]
    /\ output = [r \in Request |-> "none"]
    /\ call = [r \in Request |-> [s \in Sites |-> "idle"]]
    /\ timer = [r \in Request |-> "unset"]
    /\ outcome = [t \in Task |-> "new"]

Enter(r, place) == stage' = [stage EXCEPT ![r] = place]

\* Mutant: the timer is forgotten without its Stop.
KeepTimer(r) ==
    /\ f' = [f EXCEPT ![r].promptDecreaseTimer = FALSE]
    /\ UNCHANGED timer

\* promptDecreaseTimer.Stop, without effect once the timer has fired, and nil.
StopTimer(r) ==
    /\ f' = [f EXCEPT ![r].promptDecreaseTimer = FALSE]
    /\ timer' = [timer EXCEPT ![r] = IF @ = "pending" THEN "stopped" ELSE @]

-----------------------------------------------------------------------------
\* DecodeHeaders: a request without a body is answered 400.
DecodeHeaders(r, endStream) ==
    /\ stage[r] = "new"
    /\ Enter(r, IF endStream THEN "replied" ELSE "body")
    /\ UNCHANGED <<f, chunk, held, output, call, timer, outcome>>

\* DecodeTrailers: a body that ends in trailers never reaches processRequest
\* and goes upstream as it is.
DecodeTrailers(r) ==
    /\ stage[r] = "body"
    /\ Enter(r, "forwarded")
    /\ UNCHANGED <<f, chunk, held, output, call, timer, outcome>>

\* processRequest up to its local replies: no transcoder for the protocol, a
\* request that does not parse or has no rule (400).
BadRequest(r) ==
    /\ stage[r] = "body"
    /\ Enter(r, "replied")
    /\ UNCHANGED <<f, chunk, held, output, call, timer, outcome>>

\* Mutant: the timer is set before the error of the dispatch is looked at.
AddRequestSetTimer(r, stream) ==
    /\ Queue!Deliver(AddRequestTask(r))
    /\ timer' = [timer EXCEPT ![r] = IF stream THEN @ ELSE "pending"]

\* addRequest: only an accepted task counts as recorded, and only then does a
\* non-streaming request get its timer.
AddRequest(r, stream) ==
    \/ /\ Queue!Accept(AddRequestTask(r))
       /\ timer' = [timer EXCEPT ![r] = IF stream THEN @ ELSE "pending"]
    \/ /\ Queue!Drop(AddRequestTask(r))
       /\ UNCHANGED timer

Recorded(r) == outcome'[AddRequestTask(r)] = "accepted"

\* processRequest to its end, for a request with a rule: a local reply when
\* there are no hosts or no server is chosen (404), otherwise the request is
\* recorded in Metadata-Center and forwarded.
ProcessRequest(r, hosts, kind) ==
    /\ stage[r] = "body"
    /\ \/ /\ Enter(r, "replied")
          /\ f' = [f EXCEPT ![r].loadAware = kind.loadAware, ![r].hashed = kind.hashed]
          /\ UNCHANGED <<timer, outcome>>
       \/ /\ hosts # {}
          /\ Enter(r, "forwarded")
          /\ \/ kind.loadAware /\ AddRequest(r, kind.stream)
             \/ ~kind.loadAware /\ UNCHANGED <<timer, outcome>>
          /\ f' = [f EXCEPT ![r].loadAware = kind.loadAware,
                            ![r].hashed = kind.hashed,
                            ![r].isStream = kind.stream,
                            ![r].isIncreaseRecorded = kind.loadAware /\ Recorded(r),
                            ![r].promptDecreaseTimer =
                                kind.loadAware /\ Recorded(r) /\ ~kind.stream]
    /\ UNCHANGED <<chunk, held, output, call>>

-----------------------------------------------------------------------------
\* saveKVCache: a failed dispatch is only logged.
SaveKVCache(r) ==
    IF f[r].hashed THEN Queue!Deliver(SaveKVCacheTask(r)) ELSE UNCHANGED outcome

\* EncodeHeaders.  A status of 400 or more (not ok) passes at once, before the
\* header is kept; a response without data is replaced by a 503.
EncodeHeaders(r, ok, endStream) ==
    /\ stage[r] = "forwarded" \/ (stage[r] = "replied" /\ ~ok)
    /\ Enter(r, IF endStream THEN "ended" ELSE "responding")
    /\ \/ /\ ~ok
          /\ UNCHANGED <<f, outcome>>
       \/ /\ ok
          /\ SaveKVCache(r)
          /\ f' = [f EXCEPT ![r].respHeader = ~endStream]
    /\ UNCHANGED <<chunk, held, output, call, timer>>

\* The guard of deletePromptLength.
MayDelete(r) ==
    f[r].loadAware /\ f[r].isIncreaseRecorded /\ ~f[r].isPromptLengthDeleted

\* Mutant: promptDecreaseTimer is stopped without the nil check.
StopUnchecked(r) == "stopping"

\* The nil check of promptDecreaseTimer.
CheckTimer(r) == IF f[r].promptDecreaseTimer THEN "stopping" ELSE "sending"

\* deletePromptLength, first step: the guard and the nil check.
StartDelete(r, site) ==
    call' = [call EXCEPT ![r][site] = IF MayDelete(r) THEN CheckTimer(r) ELSE "done"]

Return(r) == chunk' = [chunk EXCEPT ![r] = NoChunk]

\* A nil pointer is dereferenced. In the timer goroutine that ends the process;
\* in a callback Envoy recovers, and the callback is over.
Panic(r, site) ==
    /\ call' = [call EXCEPT ![r][site] = "panicked"]
    /\ IF site = "timer" THEN UNCHANGED envoyVars
       ELSE Enter(r, "panicked") /\ Return(r) /\ UNCHANGED <<held, output>>

\* deletePromptLength, second step: Stop on what promptDecreaseTimer is now. The
\* other goroutine may have set it to nil since the check; the two accesses are
\* not synchronised, so this read may or may not see that.
StopTimerAt(r, site) ==
    /\ call[r][site] = "stopping"
    /\ \/ /\ StopTimer(r)
          /\ call' = [call EXCEPT ![r][site] = "sending"]
          /\ UNCHANGED envoyVars
       \/ /\ ~f[r].promptDecreaseTimer
          /\ Panic(r, site)
          /\ UNCHANGED <<f, timer>>
    /\ UNCHANGED outcome

\* Mutant: the flag is set whether the task was accepted or not.
DispatchDeleteOnce(r, site) ==
    /\ call[r][site] = "sending"
    /\ call' = [call EXCEPT ![r][site] = "done"]
    /\ Queue!Deliver(DeletePromptTask(r, site))
    /\ f' = [f EXCEPT ![r].isPromptLengthDeleted = TRUE]
    /\ UNCHANGED <<envoyVars, timer>>

\* Mutant: the flag is never set.
DispatchDeleteAgain(r, site) ==
    /\ call[r][site] = "sending"
    /\ call' = [call EXCEPT ![r][site] = "done"]
    /\ Queue!Deliver(DeletePromptTask(r, site))
    /\ UNCHANGED <<f, envoyVars, timer>>

\* deletePromptLength, last step: the dispatch, and the flag if it went well.
DispatchDelete(r, site) ==
    /\ call[r][site] = "sending"
    /\ call' = [call EXCEPT ![r][site] = "done"]
    /\ \/ /\ Queue!Accept(DeletePromptTask(r, site))
          /\ f' = [f EXCEPT ![r].isPromptLengthDeleted = TRUE]
       \/ /\ Queue!Drop(DeletePromptTask(r, site))
          /\ UNCHANGED f
    /\ UNCHANGED <<envoyVars, timer>>

\* The AfterFunc timer fires: its callback starts in a goroutine of its own.
TimerFires(r) ==
    /\ timer[r] = "pending"
    /\ timer' = [timer EXCEPT ![r] = "fired"]
    /\ UNCHANGED <<f, envoyVars, call, outcome>>

\* The timer goroutine calls deletePromptLength.
TimerDeletes(r) ==
    /\ timer[r] = "fired"
    /\ call[r]["timer"] = "idle"
    /\ StartDelete(r, "timer")
    /\ UNCHANGED <<f, envoyVars, timer, outcome>>

\* EncodeData, recordTokenTime: the first data deletes the prompt length.
EncodeData(r, data) ==
    /\ stage[r] = "responding"
    /\ chunk[r] = NoChunk
    /\ chunk' = [chunk EXCEPT ![r] = data]
    /\ f' = [f EXCEPT ![r].firstToken = TRUE]
    /\ IF f[r].firstToken THEN UNCHANGED call ELSE StartDelete(r, "token")
    /\ UNCHANGED <<stage, held, output, timer, outcome>>

\* No deletePromptLength of the callback itself is under way.
CallbackFree(r) ==
    \A site \in {"token", "end"} : call[r][site] \notin {"stopping", "sending"}

\* EncodeData, non-streaming, before the last data: StopAndBuffer.
BufferData(r) ==
    /\ chunk[r] # NoChunk /\ CallbackFree(r)
    /\ ~f[r].isStream /\ ~chunk[r].last
    /\ Return(r)
    /\ held' = [held EXCEPT ![r] = TRUE]
    /\ UNCHANGED <<f, stage, output, call, timer, outcome>>

\* EncodeData, non-streaming, at the last data: deletePromptLength once more.
EndData(r) ==
    /\ chunk[r] # NoChunk /\ CallbackFree(r)
    /\ ~f[r].isStream /\ chunk[r].last
    /\ call[r]["end"] = "idle"
    /\ StartDelete(r, "end")
    /\ UNCHANGED <<f, envoyVars, timer, outcome>>

\* GetResponseData: only the body of a failed stream is an error.
StreamError(r) == f[r].isStream /\ chunk[r].error

\* The next stage, as far as this data decides it.
AfterData(r) == IF chunk[r].last THEN "ended" ELSE "responding"

\* Mutant: only the error itself is emptied.
PassRest(r) == [f EXCEPT ![r].isStream = FALSE]

\* A stream error makes the response a non-streaming one to be dropped.
DropRest(r) == [f EXCEPT ![r].isStream = FALSE, ![r].dropRespData = TRUE]

\* processResponseData, which gets the data that was held back together with
\* the last: data after a stream error is emptied; the error itself sets the
\* status on the kept header (a nil header panics) and is emptied too.
ProcessResponseData(r) ==
    /\ chunk[r] # NoChunk /\ CallbackFree(r)
    /\ f[r].isStream \/ (chunk[r].last /\ call[r]["end"] = "done")
    /\ Return(r)
    /\ held' = [held EXCEPT ![r] = FALSE]
    /\ \/ /\ f[r].dropRespData
          /\ Enter(r, AfterData(r))
          /\ output' = [output EXCEPT ![r] = "emptied"]
          /\ UNCHANGED f
       \/ /\ ~f[r].dropRespData /\ ~StreamError(r)
          /\ Enter(r, AfterData(r))
          /\ output' = [output EXCEPT ![r] = "passed"]
          /\ UNCHANGED f
       \/ /\ ~f[r].dropRespData /\ StreamError(r) /\ ~f[r].respHeader
          /\ Enter(r, "panicked")
          /\ UNCHANGED <<f, output>>
       \/ /\ ~f[r].dropRespData /\ StreamError(r) /\ f[r].respHeader
          /\ Enter(r, AfterData(r))
          /\ output' = [output EXCEPT ![r] = "emptied"]
          /\ f' = DropRest(r)
    /\ UNCHANGED <<call, timer, outcome>>

\* EncodeTrailers: the response ends, and what was held back of it goes on as it
\* is, without processResponseData.
EncodeTrailers(r) ==
    /\ stage[r] = "responding" /\ chunk[r] = NoChunk
    /\ Enter(r, "ended")
    /\ held' = [held EXCEPT ![r] = FALSE]
    /\ output' = [output EXCEPT ![r] = IF held[r] THEN "passed" ELSE @]
    /\ UNCHANGED <<f, chunk, call, timer, outcome>>

\* Mutant: every load-aware request is taken out, also one never added.
MustReleaseAll(r) == f[r].loadAware

\* Mutant: a deleted prompt length counts as a deleted request.
MustReleaseRest(r) == f[r].isIncreaseRecorded /\ ~f[r].isPromptLengthDeleted

\* The guards of OnDestroy and decreaseRequest.
MustRelease(r) == f[r].isIncreaseRecorded /\ f[r].loadAware

\* The end of decreaseRequest: the request is taken out of Metadata-Center.
Release(r) ==
    /\ Enter(r, "destroyed")
    /\ Queue!Deliver(DeleteRequestTask(r))

\* OnDestroy, at any point between two callbacks: a recorded request is taken
\* out of Metadata-Center again (decreaseRequest, up to its nil check).
OnDestroy(r) ==
    /\ stage[r] \notin {"releasing", "destroyed", "leaked"} /\ chunk[r] = NoChunk
    /\ \/ /\ ~MustRelease(r)
          /\ Enter(r, "destroyed")
          /\ UNCHANGED outcome
       \/ /\ MustRelease(r) /\ ~f[r].promptDecreaseTimer
          /\ Release(r)
       \/ /\ MustRelease(r) /\ f[r].promptDecreaseTimer
          /\ Enter(r, "releasing")
          /\ UNCHANGED outcome
    /\ UNCHANGED <<f, chunk, held, output, call, timer>>

\* decreaseRequest after its nil check: the timer is stopped and the delete sent,
\* or the second read finds nil, and the panic leaves the request counted.
StopAndRelease(r) ==
    /\ stage[r] = "releasing"
    /\ \/ /\ StopTimer(r)
          /\ Release(r)
       \/ /\ ~f[r].promptDecreaseTimer
          /\ Enter(r, "leaked")
          /\ UNCHANGED <<f, timer, outcome>>
    /\ UNCHANGED <<chunk, held, output, call>>

-----------------------------------------------------------------------------
\* The rest of a callback that has been entered, the timer goroutine that has
\* been started, and the prompt deletions of both.
Continue(r) ==
    \/ BufferData(r)
    \/ EndData(r)
    \/ ProcessResponseData(r)
    \/ TimerDeletes(r)
    \/ \E site \in Sites : StopTimerAt(r, site) \/ DispatchDelete(r, site)
    \/ StopAndRelease(r)

Step(r) ==
    \/ \E endStream \in BOOLEAN : DecodeHeaders(r, endStream)
    \/ DecodeTrailers(r)
    \/ BadRequest(r)
    \/ \E hosts \in HostLists, kind \in Kinds : ProcessRequest(r, hosts, kind)
    \/ \E ok, endStream \in BOOLEAN : EncodeHeaders(r, ok, endStream)
    \/ \E data \in Chunks : EncodeData(r, data)
    \/ EncodeTrailers(r)
    \/ TimerFires(r)
    \/ Continue(r)
    \/ OnDestroy(r)

\* The queue works off the accepted tasks.
HandleTask ==
    /\ \E t \in Task, result \in Queue!Results : Queue!Handle(t, result)
    /\ UNCHANGED <<f, envoyVars, call, timer>>

\* A panic in a timer goroutine is recovered by nobody and ends the process.
Crashed == \E r \in Request : call[r]["timer"] = "panicked"

Next == ~Crashed /\ ((\E r \in Request : Step(r)) \/ HandleTask)

\* Every HTTP stream ends, so Envoy destroys every Filter (strong fairness: not
\* every chance between two chunks of data is passed up), entered callbacks and
\* fired timers run on, and the queue handles what it accepted.
Fairness ==
    /\ \A r \in Request :
           /\ WF_vars(~Crashed /\ Continue(r))
           /\ SF_vars(~Crashed /\ OnDestroy(r))
    /\ WF_vars(~Crashed /\ HandleTask)

Spec == Init /\ [][Next]_vars /\ Fairness
-----------------------------------------------------------------------------
Stages == {"new", "body", "replied", "forwarded", "responding", "ended", "panicked",
           "releasing", "destroyed", "leaked"}
CallStates == {"idle", "stopping", "sending", "done", "panicked"}
TimerStates == {"unset", "pending", "fired", "stopped"}

\* The types of the filters' state. Only a request whose add was accepted has a
\* timer, and promptDecreaseTimer is nil without one (addRequest).
TypeOK ==
    /\ f \in [Request -> FilterState]
    /\ stage \in [Request -> Stages]
    /\ chunk \in [Request -> Chunks \cup {NoChunk}]
    /\ held \in [Request -> BOOLEAN]
    /\ output \in [Request -> {"none", "passed", "emptied"}]
    /\ call \in [Request -> [Sites -> CallStates]]
    /\ timer \in [Request -> TimerStates]
    /\ outcome \in [Task -> Queue!Fate]
    /\ \A r \in Request : /\ timer[r] # "unset" => f[r].isIncreaseRecorded
                          /\ f[r].promptDecreaseTimer => timer[r] # "unset"

Undispatched(t) == outcome[t] = "new"
Taken(t) == outcome[t] \in {"accepted", "ok", "failed"}

\* The load of a request is taken back exactly when it was put there: a delete
\* is dispatched only for a request whose add was accepted, and a request whose
\* add was accepted has had its delete dispatched when its OnDestroy returns,
\* whatever became of the request in between (addRequest, OnDestroy).
AddBracketedByDelete ==
    \A r \in Request :
        /\ ~Undispatched(DeleteRequestTask(r)) => Taken(AddRequestTask(r))
        /\ Taken(AddRequestTask(r)) =>
               (stage[r] = "destroyed" <=> ~Undispatched(DeleteRequestTask(r)))

\* A prompt deletion is sent only for a recorded request, and every call of
\* deletePromptLength that has ended for one either found or left the prompt
\* deleted, or lost its task to a full queue: a dropped deletion is retried at
\* the next call site, an accepted one silences the later ones.
PromptNotForgotten ==
    \A r \in Request, site \in Sites :
        /\ ~Undispatched(DeletePromptTask(r, site)) => f[r].isIncreaseRecorded
        /\ call[r][site] = "done" /\ f[r].isIncreaseRecorded =>
               \/ \E s \in Sites : Taken(DeletePromptTask(r, s))
               \/ outcome[DeletePromptTask(r, site)] = "dropped"

\* The timer goroutine and the callbacks race for the deletion without a lock,
\* so a prompt may be deleted twice, but never by two callbacks: of the sites
\* whose task was accepted all but the timer's are at most one, and a
\* streaming request has no timer at all.
PromptDeletedOncePerThread ==
    \A r \in Request :
        /\ ~(Taken(DeletePromptTask(r, "token")) /\ Taken(DeletePromptTask(r, "end")))
        /\ f[r].isStream => Undispatched(DeletePromptTask(r, "timer"))

Over == {"destroyed", "leaked"}

\* After OnDestroy no timer fires any more, and the one task that the request may
\* still send is the prompt deletion of a timer goroutine whose timer had fired
\* before (decreaseRequest, the callback of time.AfterFunc).
QuietAfterDestroy ==
    [][\A r \in Request : stage[r] \in Over =>
           /\ timer'[r] = timer[r]
           /\ \A t \in Task : t.req = r /\ Undispatched(t) /\ ~Undispatched(t)' =>
                  t = DeletePromptTask(r, "timer") /\ timer[r] = "fired"]_vars

\* The unlocked second read of promptDecreaseTimer finds nil only where the timer
\* goroutine and a callback or OnDestroy are both past the nil check: the timer
\* has fired and its goroutine has passed its guard, and the other side has, so
\* that two callbacks, or a streaming request, never come to it
\* (deletePromptLength, decreaseRequest).
NilTimerNeedsRace ==
    \A r \in Request :
        (\E site \in Sites : call[r][site] = "panicked") \/ stage[r] = "leaked" =>
            /\ timer[r] = "fired" /\ call[r]["timer"] \notin {"idle", "stopping"}
            /\ \/ \E site \in {"token", "end"} : call[r][site] # "idle"
               \/ stage[r] \in Over

\* Once a stream error has emptied the response, no data passes that the filter
\* processes later, also not on the non-streaming path it takes from then on.
\* What may still pass has been held back there and goes on unread at trailers
\* (processResponseData, EncodeTrailers).
ErrorCutsResponse ==
    [][\A r \in Request :
           output[r] = "emptied" /\ output'[r] # "emptied" =>
               held[r] /\ chunk[r] = NoChunk]_vars

\* The process is gone, or the panic of its OnDestroy has left the request counted.
Abandoned(r) == Crashed \/ stage[r] = "leaked"

\* The load of each request as a lease: taken by an accepted add, given back by
\* an accepted delete, leaked by a dropped one or by a panic before it.
LeaseOf(r) ==
    IF ~Taken(AddRequestTask(r)) THEN "none"
    ELSE IF Taken(DeleteRequestTask(r)) THEN "returned"
    ELSE IF Abandoned(r) \/ ~Undispatched(DeleteRequestTask(r)) THEN "leaked"
    ELSE "held"

Lease == INSTANCE LoadLease WITH lease <- [r \in Request |-> LeaseOf(r)]

\* The filter keeps to the lease: every accepted add is followed by exactly one
\* delete in the end, which is lost to a full queue or to a panic at most
\* (addRequest, OnDestroy).
LeaseKept == Lease!Spec

\* The comment in processResponseData: a stream error sets an error status and
\* drops the rest of the data; it does not end in a panic.
StreamErrorHandled ==
    \A r \in Request : stage[r] = "panicked" =>
        \E site \in {"token", "end"} : call[r][site] = "panicked"

\* The same comment: the data that follows a stream error is dropped.
ErrorDropsRest ==
    [][\A r \in Request : output[r] = "emptied" => output'[r] = "emptied"]_vars
=============================================================================
