---------------------------- MODULE FilterProofs ----------------------------
(***************************************************************************)
(* Proofs about the filter, for any number of concurrent requests, any     *)
(* rules and upstream answers, and any capacity of the queue. First the    *)
(* load that a request puts on its host: it is taken back exactly when it  *)
(* was put there. Then deletePromptLength and its timer, which race        *)
(* without a lock: a prompt that was recorded is not forgotten and is      *)
(* deleted by one callback at most, after OnDestroy only a goroutine whose *)
(* timer had fired goes on, and the nil timer is met in that race only.    *)
(* At the end the filters together with the real queue and the service.    *)
(***************************************************************************)
EXTENDS LoadAccounting, TLAPS

USE DEF Stages, CallStates, TimerStates

\* The types alone, without what TypeOK says of the timers.
Types ==
    /\ f \in [Request -> FilterState]
    /\ stage \in [Request -> Stages]
    /\ chunk \in [Request -> Chunks \cup {NoChunk}]
    /\ held \in [Request -> BOOLEAN]
    /\ output \in [Request -> {"none", "passed", "emptied"}]
    /\ call \in [Request -> [Sites -> CallStates]]
    /\ timer \in [Request -> TimerStates]
    /\ outcome \in [Task -> Queue!Fate]

\* A callback does not return before its call of deletePromptLength has, and
\* has one such call at a time.
Busy == {"stopping", "sending"}
Calls(r) ==
    /\ chunk[r] = NoChunk => CallbackFree(r)
    /\ call[r]["token"] \notin Busy \/ call[r]["end"] \notin Busy

\* Why AddBracketedByDelete is inductive: the flag isIncreaseRecorded tells
\* whether the add was accepted, only load-aware requests have it set and a
\* timer, an add is dispatched by the step that leaves the body, a delete by
\* OnDestroy, and OnDestroy does not come in the middle of a callback.
Bracket(r) ==
    /\ f[r].isIncreaseRecorded => f[r].loadAware
    /\ f[r].isIncreaseRecorded <=> Taken(AddRequestTask(r))
    /\ stage[r] \in {"new", "body"} => Undispatched(AddRequestTask(r))
    /\ Undispatched(DeleteRequestTask(r)) <=>
           ~(stage[r] = "destroyed" /\ f[r].isIncreaseRecorded)
    /\ chunk[r] # NoChunk => stage[r] = "responding"
    /\ stage[r] \in {"releasing", "leaked"} => f[r].isIncreaseRecorded
    /\ timer[r] # "unset" => f[r].isIncreaseRecorded
    /\ f[r].promptDecreaseTimer => timer[r] # "unset"
    /\ Calls(r)

FInv == Types /\ \A r \in Request : Bracket(r)

-----------------------------------------------------------------------------
\* The tasks of a request are tasks, and are told apart by request and kind.
LEMMA TasksDiffer ==
    ASSUME NEW r \in Request
    PROVE  /\ AddRequestTask(r) \in Task /\ DeleteRequestTask(r) \in Task
           /\ SaveKVCacheTask(r) \in Task
           /\ \A s \in Sites : DeletePromptTask(r, s) \in Task
           /\ \A q \in Request :
                 /\ AddRequestTask(r) = AddRequestTask(q) => r = q
                 /\ DeleteRequestTask(r) = DeleteRequestTask(q) => r = q
                 /\ AddRequestTask(r) # DeleteRequestTask(q)
                 /\ AddRequestTask(r) # SaveKVCacheTask(q)
                 /\ DeleteRequestTask(r) # SaveKVCacheTask(q)
                 /\ \A s \in Sites : /\ AddRequestTask(r) # DeletePromptTask(q, s)
                                     /\ DeleteRequestTask(r) # DeletePromptTask(q, s)
  BY DEF Task, Sites, AddRequestTask, DeleteRequestTask, SaveKVCacheTask, DeletePromptTask

\* Dispatching a task changes its own fate only, from undispatched.
LEMMA DispatchOne ==
    ASSUME Types, NEW t \in Task, Queue!Deliver(t)
    PROVE  /\ outcome[t] = "new"
           /\ outcome' \in [Task -> Queue!Fate]
           /\ outcome'[t] \in {"accepted", "dropped"}
           /\ \A u \in Task : u # t => outcome'[u] = outcome[u]
  BY DEF Types, Queue!Deliver, Queue!Accept, Queue!Drop, Queue!Fate

LEMMA InitFInv == Init => FInv
  <1> SUFFICES ASSUME Init PROVE FInv
    OBVIOUS
  <1>1. Types
    BY DEF Init, Types, NewFilter, FilterState, Queue!Fate
  <1>2. \A r \in Request : Bracket(r)
    BY TasksDiffer DEF Init, NewFilter, Bracket, Calls, CallbackFree, Busy, Sites, Taken, Undispatched
  <1> QED BY <1>1, <1>2 DEF FInv

-----------------------------------------------------------------------------
\* What most steps leave alone is all that the bracket of a request is about.
LEMMA BracketKept ==
    ASSUME NEW r \in Request, Bracket(r),
           f'[r].isIncreaseRecorded = f[r].isIncreaseRecorded,
           f'[r].loadAware = f[r].loadAware,
           outcome'[AddRequestTask(r)] = outcome[AddRequestTask(r)],
           outcome'[DeleteRequestTask(r)] = outcome[DeleteRequestTask(r)],
           stage'[r] \in {"new", "body"} => stage[r] \in {"new", "body"},
           stage'[r] = "destroyed" <=> stage[r] = "destroyed",
           stage'[r] \in {"releasing", "leaked"} => stage[r] \in {"releasing", "leaked"},
           chunk'[r] # NoChunk => stage'[r] = "responding",
           timer'[r] # "unset" <=> timer[r] # "unset",
           f'[r].promptDecreaseTimer => f[r].promptDecreaseTimer,
           Calls(r)'
    PROVE  Bracket(r)'
  BY DEF Bracket, Taken, Undispatched, AddRequestTask, DeleteRequestTask

\* Replacing the fields of one filter by fields of the right types.
LEMMA FieldsTypes ==
    ASSUME f \in [Request -> FilterState], NEW q \in Request, NEW g \in FilterState,
           f' = [f EXCEPT ![q] = g]
    PROVE  /\ f' \in [Request -> FilterState]
           /\ f'[q] = g
           /\ \A r \in Request : r # q => f'[r] = f[r]
  OBVIOUS

\* The fields of the bracket stay, but promptDecreaseTimer may become nil.
FieldsSame(r) ==
    /\ f'[r].isIncreaseRecorded = f[r].isIncreaseRecorded
    /\ f'[r].loadAware = f[r].loadAware
    /\ f'[r].promptDecreaseTimer => f[r].promptDecreaseTimer

\* When the fields of the bracket are replaced by themselves, they stay.
LEMMA FieldsKept ==
    ASSUME f \in [Request -> FilterState], NEW q \in Request, NEW g \in FilterState,
           g.isIncreaseRecorded = f[q].isIncreaseRecorded, g.loadAware = f[q].loadAware,
           g.promptDecreaseTimer => f[q].promptDecreaseTimer,
           f' = f \/ f' = [f EXCEPT ![q] = g]
    PROVE  /\ f' \in [Request -> FilterState]
           /\ \A r \in Request : FieldsSame(r)
  <1> USE DEF FieldsSame
  <1>1. CASE f' = f
    BY <1>1
  <1>2. CASE f' = [f EXCEPT ![q] = g]
    BY <1>2, FieldsTypes
  <1> QED BY <1>1, <1>2

\* The same for the state of one call of deletePromptLength.
LEMMA CallTypes ==
    ASSUME call \in [Request -> [Sites -> CallStates]],
           NEW q \in Request, NEW s \in Sites, NEW v \in CallStates,
           call' = [call EXCEPT ![q][s] = v]
    PROVE  call' \in [Request -> [Sites -> CallStates]]
  <1> DEFINE row == [call[q] EXCEPT ![s] = v]
  <1>1. row \in [Sites -> CallStates]
    OBVIOUS
  <1>2. call' = [call EXCEPT ![q] = row]
    OBVIOUS
  <1> HIDE DEF row
  <1> QED BY <1>1, <1>2

\* The calls of the request after it, and those of the others.
LEMMA CallOthers ==
    ASSUME Types, NEW q \in Request, NEW s \in Sites, NEW v,
           call' = [call EXCEPT ![q][s] = v],
           NEW r \in Request, r # q
    PROVE  call'[r] = call[r]
  BY DEF Types

LEMMA CallAt ==
    ASSUME Types, NEW q \in Request, NEW s \in Sites, NEW v,
           call' = [call EXCEPT ![q][s] = v]
    PROVE  call'[q][s] = v /\ \A t \in Sites : t # s => call'[q][t] = call[q][t]
  <1>1. call \in [Request -> [Sites -> CallStates]]
    BY DEF Types
  <1> DEFINE row == [call[q] EXCEPT ![s] = v]
  <1>2. call' = [call EXCEPT ![q] = row]
    OBVIOUS
  <1>3. row[s] = v /\ \A t \in Sites : t # s => row[t] = call[q][t]
    BY <1>1
  <1> HIDE DEF row
  <1> QED BY <1>1, <1>2, <1>3

\* What leaves the callback's own calls alone.
LEMMA CallsKept ==
    ASSUME NEW r \in Request, Calls(r),
           call'[r]["token"] = call[r]["token"], call'[r]["end"] = call[r]["end"],
           chunk'[r] = NoChunk => chunk[r] = NoChunk \/ CallbackFree(r)
    PROVE  Calls(r)'
  BY DEF Calls, CallbackFree

\* deletePromptLength's first step keeps the types of the calls.
LEMMA StartDeleteTypes ==
    ASSUME Types, NEW q \in Request, NEW s \in Sites, StartDelete(q, s)
    PROVE  call' \in [Request -> [Sites -> CallStates]]
  <1>1. call \in [Request -> [Sites -> CallStates]]
    BY DEF Types
  <1>2. PICK v \in CallStates : call' = [call EXCEPT ![q][s] = v]
    BY DEF StartDelete, CheckTimer
  <1> QED BY <1>1, <1>2, CallTypes

\* Steps that neither dispatch nor change the filter's fields of the bracket.
LEMMA QuietSteps ==
    ASSUME FInv, NEW q \in Request,
           \/ \E e \in BOOLEAN : DecodeHeaders(q, e)
           \/ DecodeTrailers(q) \/ BadRequest(q)
           \/ \E data \in Chunks : EncodeData(q, data)
           \/ BufferData(q) \/ EndData(q) \/ ProcessResponseData(q)
           \/ EncodeTrailers(q) \/ TimerFires(q) \/ TimerDeletes(q)
           \/ \E site \in Sites : StopTimerAt(q, site)
    PROVE  FInv'
  <1> USE DEF Types, FilterState
  <1>0. /\ Types
        /\ \A r \in Request : /\ chunk[r] # NoChunk => stage[r] = "responding"
                              /\ Calls(r)
    BY DEF FInv, Bracket
  <1> DEFINE Placed(r) ==
        /\ stage'[r] \in {"new", "body"} => stage[r] \in {"new", "body"}
        /\ stage'[r] = "destroyed" <=> stage[r] = "destroyed"
        /\ stage'[r] \in {"releasing", "leaked"} => stage[r] \in {"releasing", "leaked"}
        /\ chunk'[r] # NoChunk => stage'[r] = "responding"
             Timed(r) == timer'[r] # "unset" <=> timer[r] # "unset"
             Quiet(r) == FieldsSame(r) /\ Placed(r) /\ Timed(r) /\ Calls(r)'
  <1>f. ASSUME f' = f  PROVE \A r \in Request : FieldsSame(r)
    BY <1>f DEF FieldsSame
  <1>c. ASSUME call' = call, NEW r \in Request,
               chunk'[r] = NoChunk => chunk[r] = NoChunk \/ CallbackFree(r)
        PROVE  Calls(r)'
    BY <1>0, <1>c, CallsKept
  <1>1. ASSUME NEW e \in BOOLEAN, DecodeHeaders(q, e)
        PROVE  Types' /\ outcome' = outcome /\ \A r \in Request : Quiet(r)
    <2>1. Types' /\ outcome' = outcome /\ \A r \in Request : Placed(r) /\ Timed(r)
      BY <1>0, <1>1 DEF DecodeHeaders, Enter
    <2> QED BY <1>0, <1>1, <1>c, <1>f, <2>1 DEF DecodeHeaders
  <1>2. ASSUME DecodeTrailers(q) \/ BadRequest(q) \/ EncodeTrailers(q)
        PROVE  Types' /\ outcome' = outcome /\ \A r \in Request : Quiet(r)
    <2>1. /\ UNCHANGED <<f, chunk, call, timer, outcome>>
          /\ held' = held \/ held' = [held EXCEPT ![q] = FALSE]
          /\ output' \in [Request -> {"none", "passed", "emptied"}]
          /\ \E place \in {"forwarded", "replied", "ended"} :
                 stage' = [stage EXCEPT ![q] = place]
          /\ stage[q] \notin {"releasing", "destroyed"} /\ chunk[q] = NoChunk
      BY <1>0, <1>2 DEF DecodeTrailers, BadRequest, EncodeTrailers, Enter
    <2>2. PICK place \in {"forwarded", "replied", "ended"} :
              stage' = [stage EXCEPT ![q] = place]
      BY <2>1
    <2>3. stage' \in [Request -> Stages] /\ \A r \in Request : Placed(r) /\ Timed(r)
      BY <1>0, <2>1, <2>2
    <2>4. held' \in [Request -> BOOLEAN]
      BY <1>0, <2>1
    <2> QED BY <1>0, <1>c, <1>f, <2>1, <2>3, <2>4
  <1>3. ASSUME NEW data \in Chunks, EncodeData(q, data)
        PROVE  Types' /\ outcome' = outcome /\ \A r \in Request : Quiet(r)
    <2>1. call' \in [Request -> [Sites -> CallStates]]
      BY <1>0, <1>3, StartDeleteTypes DEF EncodeData, Sites
    <2>2. /\ f' = [f EXCEPT ![q].firstToken = TRUE]
          /\ chunk' = [chunk EXCEPT ![q] = data] /\ stage[q] = "responding"
          /\ UNCHANGED <<stage, held, output, timer, outcome>>
      BY <1>3 DEF EncodeData
    <2> DEFINE g == [f[q] EXCEPT !.firstToken = TRUE]
    <2>3. /\ f \in [Request -> FilterState] /\ g \in FilterState
          /\ f' = [f EXCEPT ![q] = g]
          /\ g.isIncreaseRecorded = f[q].isIncreaseRecorded /\ g.loadAware = f[q].loadAware
          /\ g.promptDecreaseTimer => f[q].promptDecreaseTimer
      <3>1. f[q] \in FilterState /\ f \in [Request -> FilterState]
        BY <1>0
      <3>2. f' = [f EXCEPT ![q] = g]
        BY <2>2
      <3> QED BY <3>1, <3>2
    <2> HIDE DEF g
    <2>4. f' \in [Request -> FilterState] /\ \A r \in Request : FieldsSame(r)
      BY <2>3, FieldsKept
    <2>5. \A r \in Request : Placed(r) /\ Timed(r)
      BY <1>0, <2>2
    <2>6. ASSUME NEW r \in Request  PROVE Calls(r)'
      <3>1. CASE r = q
        <4>1. chunk'[q] # NoChunk /\ chunk[q] = NoChunk
          BY <1>0, <1>3, <2>2, FilterAssumption DEF EncodeData
        <4>2. call[q]["end"] \notin Busy
          BY <1>0, <4>1 DEF Calls, CallbackFree, Busy
        <4>3. call'[q]["end"] = call[q]["end"]
          BY <1>0, <1>3, CallAt DEF EncodeData, StartDelete, Sites
        <4> QED BY <3>1, <4>1, <4>2, <4>3 DEF Calls
      <3>2. CASE r # q
        <4>1. call'[r] = call[r]
          BY <1>0, <1>3, <3>2, CallOthers DEF EncodeData, StartDelete, Sites
        <4>2. chunk'[r] = chunk[r]
          BY <1>0, <2>2, <3>2
        <4> QED BY <1>0, <4>1, <4>2, CallsKept
      <3> QED BY <3>1, <3>2
    <2> QED BY <1>0, <2>1, <2>2, <2>4, <2>5, <2>6
  <1>4. ASSUME BufferData(q)
        PROVE  Types' /\ outcome' = outcome /\ \A r \in Request : Quiet(r)
    <2>1. /\ UNCHANGED <<f, stage, output, call, timer, outcome>>
          /\ chunk' = [chunk EXCEPT ![q] = NoChunk] /\ held' = [held EXCEPT ![q] = TRUE]
          /\ CallbackFree(q)
      BY <1>4 DEF BufferData, Return
    <2>2. Types' /\ \A r \in Request : Placed(r) /\ Timed(r)
      BY <1>0, <2>1
    <2> QED BY <1>0, <1>c, <1>f, <2>1, <2>2
  <1>5. ASSUME EndData(q) \/ TimerDeletes(q)
        PROVE  Types' /\ outcome' = outcome /\ \A r \in Request : Quiet(r)
    <2>1. call' \in [Request -> [Sites -> CallStates]]
      BY <1>0, <1>5, StartDeleteTypes DEF EndData, TimerDeletes, Sites
    <2>2. UNCHANGED <<f, stage, chunk, held, output, timer, outcome>>
      BY <1>5 DEF EndData, TimerDeletes, envoyVars
    <2>3. ASSUME NEW r \in Request  PROVE Calls(r)'
      <3>1. CASE TimerDeletes(q)
        <4>1. call'[r]["token"] = call[r]["token"] /\ call'[r]["end"] = call[r]["end"]
          BY <1>0, <3>1 DEF TimerDeletes, StartDelete, Sites
        <4> QED BY <1>0, <2>2, <4>1, CallsKept
      <3>2. CASE EndData(q) /\ r = q
        <4>1. call'[q]["token"] = call[q]["token"] /\ call[q]["token"] \notin Busy
          BY <1>0, <3>2, CallAt DEF EndData, StartDelete, Sites, CallbackFree, Busy
        <4> QED BY <2>2, <3>2, <4>1 DEF EndData, Calls
      <3>3. CASE EndData(q) /\ r # q
        <4>1. call'[r] = call[r]
          BY <1>0, <3>3, CallOthers DEF EndData, StartDelete, Sites
        <4> QED BY <1>0, <2>2, <4>1, CallsKept
      <3> QED BY <1>5, <3>1, <3>2, <3>3
    <2> QED BY <1>0, <1>f, <2>1, <2>2, <2>3
  <1>6. ASSUME TimerFires(q)
        PROVE  Types' /\ outcome' = outcome /\ \A r \in Request : Quiet(r)
    <2>1. /\ timer[q] = "pending" /\ timer' = [timer EXCEPT ![q] = "fired"]
          /\ UNCHANGED <<f, stage, chunk, held, output, call, outcome>>
      BY <1>6 DEF TimerFires, envoyVars
    <2>2. Types' /\ \A r \in Request : Placed(r) /\ Timed(r)
      BY <1>0, <2>1
    <2> QED BY <1>0, <1>c, <1>f, <2>1, <2>2
  <1>7. ASSUME ProcessResponseData(q)
        PROVE  Types' /\ outcome' = outcome /\ \A r \in Request : Quiet(r)
    <2>1. /\ UNCHANGED <<call, timer, outcome>>
          /\ chunk' = [chunk EXCEPT ![q] = NoChunk] /\ held' = [held EXCEPT ![q] = FALSE]
          /\ \E place \in {"ended", "responding", "panicked"} :
                 stage' = [stage EXCEPT ![q] = place]
          /\ output' = output \/ \E o \in {"passed", "emptied"} :
                                     output' = [output EXCEPT ![q] = o]
          /\ f' = f \/ f' = [f EXCEPT ![q].isStream = FALSE, ![q].dropRespData = TRUE]
          /\ CallbackFree(q)
      BY <1>7 DEF ProcessResponseData, DropRest, Return, Enter, AfterData
    <2>2. output' \in [Request -> {"none", "passed", "emptied"}]
      BY <1>0, <2>1
    <2> DEFINE g == [f[q] EXCEPT !.isStream = FALSE, !.dropRespData = TRUE]
    <2>3. /\ f \in [Request -> FilterState] /\ g \in FilterState
          /\ f' = f \/ f' = [f EXCEPT ![q] = g]
          /\ g.isIncreaseRecorded = f[q].isIncreaseRecorded /\ g.loadAware = f[q].loadAware
          /\ g.promptDecreaseTimer => f[q].promptDecreaseTimer
      <3>1. f[q] \in FilterState /\ f \in [Request -> FilterState]
        BY <1>0
      <3>2. f' = f \/ f' = [f EXCEPT ![q] = g]
        BY <2>1, <3>1
      <3> QED BY <3>1, <3>2
    <2> HIDE DEF g
    <2>4. f' \in [Request -> FilterState] /\ \A r \in Request : FieldsSame(r)
      BY <2>3, FieldsKept
    <2>5. stage[q] = "responding"
      BY <1>0, <1>7 DEF ProcessResponseData
    <2>6. /\ stage' \in [Request -> Stages]
          /\ chunk' \in [Request -> Chunks \cup {NoChunk}]
          /\ held' \in [Request -> BOOLEAN]
          /\ \A r \in Request : Placed(r) /\ Timed(r)
          /\ \A r \in Request : chunk'[r] = NoChunk => chunk[r] = NoChunk \/ CallbackFree(r)
      BY <1>0, <2>1, <2>5
    <2> QED BY <1>0, <1>c, <2>1, <2>2, <2>4, <2>6
  <1>8. ASSUME NEW site \in Sites, StopTimerAt(q, site)
        PROVE  Types' /\ outcome' = outcome /\ \A r \in Request : Quiet(r)
    <2> DEFINE g == [f[q] EXCEPT !.promptDecreaseTimer = FALSE]
    <2>1. /\ outcome' = outcome /\ held' = held /\ output' = output
          /\ call[q][site] = "stopping"
          /\ \E v \in {"sending", "panicked"} : call' = [call EXCEPT ![q][site] = v]
          /\ \/ f' = [f EXCEPT ![q].promptDecreaseTimer = FALSE]
                /\ timer' = [timer EXCEPT ![q] = IF @ = "pending" THEN "stopped" ELSE @]
             \/ UNCHANGED <<f, timer>>
          /\ \/ UNCHANGED <<stage, chunk>>
             \/ /\ site \in {"token", "end"}
                /\ call' = [call EXCEPT ![q][site] = "panicked"]
                /\ stage' = [stage EXCEPT ![q] = "panicked"]
                /\ chunk' = [chunk EXCEPT ![q] = NoChunk]
      BY <1>8 DEF StopTimerAt, StopTimer, Panic, Enter, Return, envoyVars, Sites
    <2>2. /\ f' \in [Request -> FilterState] /\ \A r \in Request : FieldsSame(r)
      <3>1. /\ f \in [Request -> FilterState] /\ g \in FilterState
            /\ f' = f \/ f' = [f EXCEPT ![q] = g]
            /\ g.isIncreaseRecorded = f[q].isIncreaseRecorded /\ g.loadAware = f[q].loadAware
            /\ g.promptDecreaseTimer => f[q].promptDecreaseTimer
        <4>1. f[q] \in FilterState /\ f \in [Request -> FilterState]
          BY <1>0
        <4>2. f' = f \/ f' = [f EXCEPT ![q] = g]
          BY <2>1, <4>1
        <4> QED BY <4>1, <4>2
      <3> HIDE DEF g
      <3> QED BY <3>1, FieldsKept
    <2>3. timer' \in [Request -> TimerStates] /\ \A r \in Request : Timed(r)
      <3>1. timer \in [Request -> TimerStates]
        BY <1>0
      <3>2. CASE timer' = [timer EXCEPT ![q] = IF @ = "pending" THEN "stopped" ELSE @]
        BY <3>1, <3>2
      <3>3. CASE timer' = timer
        BY <3>1, <3>3
      <3> QED BY <2>1, <3>2, <3>3
    <2>4. call' \in [Request -> [Sites -> CallStates]]
      BY <1>0, <2>1, CallTypes
    <2>5. site # "timer" => chunk[q] # NoChunk /\ stage[q] = "responding"
      <3>1. Calls(q) /\ (chunk[q] # NoChunk => stage[q] = "responding")
        BY <1>0
      <3> QED BY <2>1, <3>1 DEF Calls, CallbackFree, Sites
    <2>6. /\ stage' \in [Request -> Stages] /\ chunk' \in [Request -> Chunks \cup {NoChunk}]
          /\ \A r \in Request : Placed(r)
      <3>1. /\ stage \in [Request -> Stages] /\ chunk \in [Request -> Chunks \cup {NoChunk}]
            /\ \A r \in Request : chunk[r] # NoChunk => stage[r] = "responding"
        BY <1>0
      <3>2. CASE UNCHANGED <<stage, chunk>>
        BY <3>1, <3>2
      <3>3. ASSUME site \in {"token", "end"}, stage' = [stage EXCEPT ![q] = "panicked"],
                   chunk' = [chunk EXCEPT ![q] = NoChunk]
            PROVE  /\ stage' \in [Request -> Stages] /\ chunk' \in [Request -> Chunks \cup {NoChunk}]
                   /\ \A r \in Request : Placed(r)
        BY <2>5, <3>1, <3>3
      <3> QED BY <2>1, <3>2, <3>3
    <2>7. ASSUME NEW r \in Request  PROVE Calls(r)'
      <3>1. CASE r # q
        <4>1. call'[r] = call[r] /\ chunk'[r] = chunk[r]
          BY <1>0, <2>1, <3>1 DEF Types
        <4> QED BY <1>0, <4>1, CallsKept
      <3>2. CASE r = q /\ site = "timer"
        <4>1. call'[r]["token"] = call[r]["token"] /\ call'[r]["end"] = call[r]["end"]
          BY <1>0, <2>1, <3>2 DEF Sites
        <4> QED BY <1>0, <2>1, <3>2, <4>1, CallsKept
      <3>3. CASE r = q /\ site # "timer"
        <4>1. \A t \in {"token", "end"} : t # site => call'[q][t] = call[q][t]
          BY <1>0, <2>1, CallAt DEF Sites
        <4>2. \A t \in {"token", "end"} : t # site => call[q][t] \notin Busy
          BY <1>0, <2>1, <3>3 DEF Calls, Busy, Sites
        <4>3. CASE UNCHANGED <<stage, chunk>>
          BY <2>5, <3>3, <4>1, <4>2, <4>3 DEF Calls, Sites
        <4>4. CASE call' = [call EXCEPT ![q][site] = "panicked"]
          <5>1. call'[q][site] = "panicked"
            BY <1>0, <4>4, CallAt
          <5> QED BY <3>3, <4>1, <4>2, <5>1 DEF Calls, CallbackFree, Busy, Sites
        <4> QED BY <2>1, <4>3, <4>4
      <3> QED BY <3>1, <3>2, <3>3
    <2> QED BY <1>0, <2>1, <2>2, <2>3, <2>4, <2>6, <2>7
  <1>9. Types' /\ outcome' = outcome /\ \A r \in Request : Quiet(r)
    BY <1>1, <1>2, <1>3, <1>4, <1>6, <1>7, <1>5, <1>8
  <1>10. \A r \in Request : Bracket(r)'
    BY <1>9, BracketKept DEF FInv, FieldsSame
  <1> QED BY <1>9, <1>10 DEF FInv

\* processRequest: the add is dispatched, and the flag tells if it was accepted.
LEMMA ProcessRequestStep ==
    ASSUME FInv, NEW q \in Request, NEW hosts, NEW kind \in Kinds,
           ProcessRequest(q, hosts, kind)
    PROVE  FInv'
  <1>1. /\ Types /\ f \in [Request -> FilterState] /\ f[q] \in FilterState
        /\ kind.loadAware \in BOOLEAN /\ kind.hashed \in BOOLEAN /\ kind.stream \in BOOLEAN
    BY FilterAssumption DEF FInv, Types
  <1>2. stage[q] = "body" /\ UNCHANGED <<chunk, held, output, call>>
    BY DEF ProcessRequest
  <1>3. /\ outcome[AddRequestTask(q)] = "new" /\ outcome[DeleteRequestTask(q)] = "new"
        /\ f[q].isIncreaseRecorded = FALSE /\ chunk[q] = NoChunk /\ timer[q] = "unset"
        /\ f[q].promptDecreaseTimer = FALSE
    BY <1>1, <1>2 DEF FInv, Bracket, Taken, Undispatched, FilterState
  <1> DEFINE Places == {"replied", "forwarded"}
             recorded == outcome'[AddRequestTask(q)] = "accepted"
             refused == [f[q] EXCEPT !.loadAware = kind.loadAware, !.hashed = kind.hashed]
             passed == [f[q] EXCEPT !.loadAware = kind.loadAware, !.hashed = kind.hashed,
                                    !.isStream = kind.stream,
                                    !.isIncreaseRecorded = kind.loadAware /\ recorded,
                                    !.promptDecreaseTimer =
                                        kind.loadAware /\ recorded /\ ~kind.stream]
  <1>4. /\ \E place \in Places : stage' = [stage EXCEPT ![q] = place]
        /\ timer' = timer \/ (recorded /\ timer' = [timer EXCEPT ![q] = "pending"])
        /\ \/ outcome' = outcome
           \/ kind.loadAware /\ Queue!Deliver(AddRequestTask(q))
        /\ kind.loadAware /\ recorded /\ ~kind.stream => timer'[q] = "pending"
    <2>1. timer \in [Request -> TimerStates]
      BY <1>1 DEF Types
    <2>2. ASSUME AddRequest(q, kind.stream)
          PROVE  /\ timer' = timer \/ (recorded /\ timer' = [timer EXCEPT ![q] = "pending"])
                 /\ Queue!Deliver(AddRequestTask(q))
                 /\ recorded /\ ~kind.stream => timer'[q] = "pending"
      <3>1. CASE Queue!Drop(AddRequestTask(q)) /\ UNCHANGED timer
        <4>1. ~recorded
          BY <1>1, <3>1, TasksDiffer DEF Queue!Drop, Types
        <4> QED BY <3>1, <4>1 DEF Queue!Deliver
      <3>2. CASE /\ Queue!Accept(AddRequestTask(q))
                 /\ timer' = [timer EXCEPT ![q] = IF kind.stream THEN @ ELSE "pending"]
        <4>1. recorded
          BY <1>1, <3>2, TasksDiffer DEF Queue!Accept, Types
        <4> QED BY <1>1, <2>1, <3>2, <4>1 DEF Queue!Deliver
      <3> QED BY <2>2, <3>1, <3>2 DEF AddRequest
    <2>3. outcome' = outcome => ~recorded
      BY <1>3
    <2> QED BY <2>2, <2>3 DEF ProcessRequest, Enter
  <1>5. \/ f' = [f EXCEPT ![q] = refused] /\ outcome' = outcome /\ timer' = timer
        \/ f' = [f EXCEPT ![q] = passed]
    BY <1>1 DEF ProcessRequest, Recorded
  <1>6. /\ refused \in FilterState /\ refused.isIncreaseRecorded = FALSE
        /\ passed \in FilterState /\ passed.loadAware = kind.loadAware
        /\ passed.isIncreaseRecorded = (kind.loadAware /\ recorded)
        /\ refused.promptDecreaseTimer = FALSE
        /\ passed.promptDecreaseTimer = (kind.loadAware /\ recorded /\ ~kind.stream)
    <2>1. /\ refused \in FilterState /\ refused.isIncreaseRecorded = FALSE
          /\ refused.promptDecreaseTimer = FALSE
      BY <1>1, <1>3 DEF FilterState
    <2>2. /\ (kind.loadAware /\ recorded) \in BOOLEAN
          /\ (kind.loadAware /\ recorded /\ ~kind.stream) \in BOOLEAN
      OBVIOUS
    <2>3. /\ passed \in FilterState /\ passed.loadAware = kind.loadAware
          /\ passed.isIncreaseRecorded = (kind.loadAware /\ recorded)
          /\ passed.promptDecreaseTimer = (kind.loadAware /\ recorded /\ ~kind.stream)
      <3> DEFINE now == kind.loadAware /\ recorded
                 timed == kind.loadAware /\ recorded /\ ~kind.stream
                 g == [f[q] EXCEPT !.loadAware = kind.loadAware, !.hashed = kind.hashed,
                                   !.isStream = kind.stream]
      <3>1. passed = [g EXCEPT !.isIncreaseRecorded = now, !.promptDecreaseTimer = timed]
        OBVIOUS
      <3>2. g \in FilterState /\ g.loadAware = kind.loadAware
        BY <1>1 DEF FilterState
      <3>3. now \in BOOLEAN /\ timed \in BOOLEAN
        BY <2>2
      <3> HIDE DEF g, passed, now, timed
      <3>4. /\ passed \in FilterState /\ passed.loadAware = kind.loadAware
            /\ passed.isIncreaseRecorded = now /\ passed.promptDecreaseTimer = timed
        BY <3>1, <3>2, <3>3 DEF FilterState
      <3> QED BY <3>4 DEF now, timed
    <2> QED BY <2>1, <2>3
  <1>7. /\ outcome' \in [Task -> Queue!Fate]
        /\ \A u \in Task : u # AddRequestTask(q) => outcome'[u] = outcome[u]
        /\ recorded => kind.loadAware
        /\ outcome'[AddRequestTask(q)] \in {"new", "accepted", "dropped"}
    BY <1>1, <1>3, <1>4, DispatchOne, TasksDiffer DEF Types
  <1> HIDE DEF refused, passed
  <1>8. /\ f' \in [Request -> FilterState]
        /\ f'[q].isIncreaseRecorded = recorded
        /\ recorded => f'[q].loadAware
        /\ f'[q].promptDecreaseTimer => timer'[q] = "pending"
        /\ \A r \in Request : r # q => f'[r] = f[r]
    <2>1. CASE f' = [f EXCEPT ![q] = refused] /\ outcome' = outcome
      BY <2>1, <1>1, <1>3, <1>6, FieldsTypes
    <2>2. CASE f' = [f EXCEPT ![q] = passed]
      BY <2>2, <1>1, <1>4, <1>6, <1>7, FieldsTypes
    <2> QED BY <1>5, <2>1, <2>2
  <1>9. Types'
    <2>1. stage' \in [Request -> Stages]
          /\ timer' \in [Request -> TimerStates]
      BY <1>1, <1>4 DEF Types
    <2> QED BY <1>1, <1>2, <1>7, <1>8, <2>1 DEF Types
  <1>10. ASSUME NEW r \in Request PROVE Bracket(r)'
    <2>1. Bracket(r) /\ stage \in [Request -> Stages]
      BY <1>1 DEF FInv, Types
    <2>2. CASE r # q
      <3>1. /\ outcome'[AddRequestTask(r)] = outcome[AddRequestTask(r)]
            /\ outcome'[DeleteRequestTask(r)] = outcome[DeleteRequestTask(r)]
        BY <2>2, <1>7, TasksDiffer
      <3>2. /\ stage'[r] = stage[r] /\ chunk'[r] = chunk[r] /\ call'[r] = call[r]
            /\ timer'[r] = timer[r]
        BY <2>1, <2>2, <1>1, <1>2, <1>4 DEF Types
      <3>3. (chunk[r] # NoChunk => stage[r] = "responding") /\ Calls(r)
        BY <2>1 DEF Bracket
      <3>4. Calls(r)'
        BY <3>2, <3>3, CallsKept
      <3> QED BY <2>1, <2>2, <3>1, <3>2, <3>3, <3>4, <1>8, BracketKept
    <2>3. CASE r = q
      <3>1. outcome'[DeleteRequestTask(q)] = "new" /\ chunk'[q] = NoChunk
        BY <1>2, <1>3, <1>7, TasksDiffer
      <3>2. stage'[q] \in Places
        BY <2>1, <1>4
      <3>3. Calls(q)'
        BY <2>1, <2>3, <1>2, CallsKept DEF Bracket
      <3>4. timer'[q] # "unset" => recorded
        BY <1>3, <1>4
      <3> QED BY <2>3, <3>1, <3>2, <3>3, <3>4, <1>7, <1>8 DEF Bracket, Taken, Undispatched
    <2> QED BY <2>2, <2>3
  <1> QED BY <1>9, <1>10 DEF FInv

\* A dispatch of a task other than the add and the delete leaves both alone.
LEMMA OtherTask ==
    ASSUME Types, NEW t \in Task, Queue!Deliver(t),
           t.op \notin {"AddRequest", "DeleteRequest"}
    PROVE  /\ outcome' \in [Task -> Queue!Fate]
           /\ \A r \in Request :
                 /\ outcome'[AddRequestTask(r)] = outcome[AddRequestTask(r)]
                 /\ outcome'[DeleteRequestTask(r)] = outcome[DeleteRequestTask(r)]
  <1>1. \A r \in Request : AddRequestTask(r) # t /\ DeleteRequestTask(r) # t
    BY DEF AddRequestTask, DeleteRequestTask
  <1> QED BY <1>1, DispatchOne, TasksDiffer

\* EncodeHeaders and the end of deletePromptLength: dispatches of other tasks.
LEMMA OtherDispatches ==
    ASSUME FInv, NEW q \in Request,
           \/ \E ok, endStream \in BOOLEAN : EncodeHeaders(q, ok, endStream)
           \/ \E site \in Sites : DispatchDelete(q, site)
    PROVE  FInv'
  <1>1. /\ Types /\ f \in [Request -> FilterState] /\ f[q] \in FilterState
        /\ \A r \in Request : (chunk[r] # NoChunk => stage[r] = "responding") /\ Calls(r)
    BY DEF FInv, Types, Bracket
  <1> DEFINE Kept(r) ==
        /\ FieldsSame(r) /\ timer'[r] = timer[r]
        /\ outcome'[AddRequestTask(r)] = outcome[AddRequestTask(r)]
        /\ outcome'[DeleteRequestTask(r)] = outcome[DeleteRequestTask(r)]
        /\ stage'[r] \in {"new", "body"} => stage[r] \in {"new", "body"}
        /\ stage'[r] = "destroyed" <=> stage[r] = "destroyed"
        /\ stage'[r] \in {"releasing", "leaked"} => stage[r] \in {"releasing", "leaked"}
        /\ chunk'[r] # NoChunk => stage'[r] = "responding"
        /\ Calls(r)'
  <1>2. ASSUME NEW ok \in BOOLEAN, NEW endStream \in BOOLEAN,
               EncodeHeaders(q, ok, endStream)
        PROVE  Types' /\ \A r \in Request : Kept(r)
    <2>1. /\ stage[q] \in {"forwarded", "replied"}
          /\ \E place \in {"ended", "responding"} : stage' = [stage EXCEPT ![q] = place]
          /\ UNCHANGED <<chunk, held, output, call, timer>>
      BY <1>2 DEF EncodeHeaders, Enter
    <2>2. outcome' = outcome \/ Queue!Deliver(SaveKVCacheTask(q))
      BY <1>2 DEF EncodeHeaders, SaveKVCache
    <2>3. /\ outcome' \in [Task -> Queue!Fate]
          /\ \A r \in Request :
                /\ outcome'[AddRequestTask(r)] = outcome[AddRequestTask(r)]
                /\ outcome'[DeleteRequestTask(r)] = outcome[DeleteRequestTask(r)]
      <3>1. SaveKVCacheTask(q).op \notin {"AddRequest", "DeleteRequest"}
        BY DEF SaveKVCacheTask
      <3>2. outcome \in [Task -> Queue!Fate]
        BY <1>1 DEF Types
      <3> QED BY <1>1, <2>2, <3>1, <3>2, OtherTask, TasksDiffer
    <2> DEFINE g == [f[q] EXCEPT !.respHeader = ~endStream]
    <2>4. /\ f' = f \/ f' = [f EXCEPT ![q] = g]
          /\ g \in FilterState
          /\ g.isIncreaseRecorded = f[q].isIncreaseRecorded /\ g.loadAware = f[q].loadAware
          /\ g.promptDecreaseTimer => f[q].promptDecreaseTimer
      <3>1. f' = f \/ f' = [f EXCEPT ![q] = g]
        BY <1>2 DEF EncodeHeaders
      <3> QED BY <1>1, <3>1 DEF FilterState
    <2> HIDE DEF g
    <2>5. f' \in [Request -> FilterState]
          /\ \A r \in Request : FieldsSame(r)
      BY <1>1, <2>4, FieldsKept
    <2>6. stage \in [Request -> Stages]
      BY <1>1 DEF Types
    <2>7. Types'
      <3>1. stage' \in [Request -> Stages]
        BY <2>1, <2>6
      <3> QED BY <1>1, <2>1, <2>3, <2>5, <3>1 DEF Types
    <2>8. \A r \in Request :
             /\ stage'[r] \in {"new", "body"} => stage[r] \in {"new", "body"}
             /\ stage'[r] = "destroyed" <=> stage[r] = "destroyed"
             /\ stage'[r] \in {"releasing", "leaked"} => stage[r] \in {"releasing", "leaked"}
             /\ chunk'[r] # NoChunk => stage'[r] = "responding"
      BY <1>1, <2>1, <2>6
    <2>9. \A r \in Request : Calls(r)'
      BY <1>1, <2>1, CallsKept
    <2> QED BY <2>1, <2>3, <2>5, <2>7, <2>8, <2>9
  <1>3. ASSUME NEW site \in Sites, DispatchDelete(q, site)
        PROVE  Types' /\ \A r \in Request : Kept(r)
    <2>1. /\ UNCHANGED <<stage, chunk, held, output, timer>>
          /\ call' = [call EXCEPT ![q][site] = "done"]
          /\ Queue!Deliver(DeletePromptTask(q, site))
      BY <1>3 DEF DispatchDelete, envoyVars, Queue!Deliver
    <2>2. call' \in [Request -> [Sites -> CallStates]]
      BY <1>1, <2>1, CallTypes DEF Types
    <2>3. /\ outcome' \in [Task -> Queue!Fate]
          /\ \A r \in Request :
                /\ outcome'[AddRequestTask(r)] = outcome[AddRequestTask(r)]
                /\ outcome'[DeleteRequestTask(r)] = outcome[DeleteRequestTask(r)]
      <3>1. DeletePromptTask(q, site).op \notin {"AddRequest", "DeleteRequest"}
        BY DEF DeletePromptTask, Sites
      <3> QED BY <1>1, <2>1, <3>1, OtherTask, TasksDiffer
    <2> DEFINE g == [f[q] EXCEPT !.isPromptLengthDeleted = TRUE]
    <2>4. /\ f' = f \/ f' = [f EXCEPT ![q] = g]
          /\ g \in FilterState
          /\ g.isIncreaseRecorded = f[q].isIncreaseRecorded /\ g.loadAware = f[q].loadAware
          /\ g.promptDecreaseTimer => f[q].promptDecreaseTimer
      <3>1. f' = f \/ f' = [f EXCEPT ![q] = g]
        BY <1>3 DEF DispatchDelete
      <3> QED BY <1>1, <3>1 DEF FilterState
    <2> HIDE DEF g
    <2>5. f' \in [Request -> FilterState]
          /\ \A r \in Request : FieldsSame(r)
      BY <1>1, <2>4, FieldsKept
    <2>6. Types'
      BY <1>1, <2>1, <2>2, <2>3, <2>5 DEF Types
    <2>7. ASSUME NEW r \in Request  PROVE Calls(r)'
      <3>1. /\ call'[q][site] = "done" /\ \A t \in Sites : t # site => call'[q][t] = call[q][t]
            /\ r # q => call'[r] = call[r]
        <4>1. Types /\ call' = [call EXCEPT ![q][site] = "done"]
          BY <1>1, <2>1
        <4>2. call'[q][site] = "done" /\ \A t \in Sites : t # site => call'[q][t] = call[q][t]
          BY <4>1, CallAt
        <4>3. r # q => call'[r] = call[r]
          BY <4>1, CallOthers
        <4> QED BY <4>2, <4>3
      <3> QED BY <1>1, <2>1, <3>1 DEF Calls, CallbackFree, Busy, Sites
    <2> QED BY <1>1, <2>1, <2>3, <2>5, <2>6, <2>7
  <1>4. Types' /\ \A r \in Request : Kept(r)
    BY <1>2, <1>3
  <1>5. \A r \in Request : Bracket(r)'
    BY <1>4, BracketKept DEF FInv, FieldsSame
  <1> QED BY <1>4, <1>5 DEF FInv

\* The delete of a recorded request, and only of one, is dispatched by the step
\* that ends OnDestroy.
LEMMA OnDestroyStep ==
    ASSUME FInv, NEW q \in Request, OnDestroy(q) \/ StopAndRelease(q)
    PROVE  FInv'
  <1>1. /\ Types /\ Bracket(q) /\ f[q] \in FilterState
        /\ f \in [Request -> FilterState] /\ timer \in [Request -> TimerStates]
        /\ stage \in [Request -> Stages]
    BY DEF FInv, Types
  <1>2. /\ stage[q] # "destroyed" /\ UNCHANGED <<chunk, held, output, call>>
        /\ \E place \in {"destroyed", "releasing", "leaked"} :
               stage' = [stage EXCEPT ![q] = place]
        /\ chunk[q] = NoChunk
    BY <1>1 DEF OnDestroy, StopAndRelease, Release, Enter, Bracket
  <1>3. \/ /\ f[q].isIncreaseRecorded /\ Queue!Deliver(DeleteRequestTask(q))
           /\ stage' = [stage EXCEPT ![q] = "destroyed"]
        \/ /\ ~f[q].isIncreaseRecorded /\ outcome' = outcome
           /\ stage' = [stage EXCEPT ![q] = "destroyed"]
        \/ /\ f[q].isIncreaseRecorded /\ outcome' = outcome
           /\ \E place \in {"releasing", "leaked"} : stage' = [stage EXCEPT ![q] = place]
    BY <1>1 DEF OnDestroy, StopAndRelease, Release, Enter, MustRelease, Bracket
  <1>4. UNCHANGED <<f, timer>> \/ StopTimer(q)
    BY DEF OnDestroy, StopAndRelease
  <1>5. /\ f' \in [Request -> FilterState] /\ \A r \in Request : FieldsSame(r)
        /\ timer' \in [Request -> TimerStates]
        /\ \A r \in Request : timer'[r] # "unset" <=> timer[r] # "unset"
    <2> DEFINE g == [f[q] EXCEPT !.promptDecreaseTimer = FALSE]
    <2>1. /\ g \in FilterState
          /\ f' = f \/ f' = [f EXCEPT ![q] = g]
          /\ g.isIncreaseRecorded = f[q].isIncreaseRecorded /\ g.loadAware = f[q].loadAware
          /\ g.promptDecreaseTimer => f[q].promptDecreaseTimer
      <3>1. f' = f \/ f' = [f EXCEPT ![q] = g]
        BY <1>1, <1>4 DEF StopTimer
      <3>2. /\ g \in FilterState /\ ~g.promptDecreaseTimer
            /\ g.isIncreaseRecorded = f[q].isIncreaseRecorded /\ g.loadAware = f[q].loadAware
        BY <1>1 DEF FilterState
      <3> QED BY <3>1, <3>2
    <2> HIDE DEF g
    <2>2. f' \in [Request -> FilterState] /\ \A r \in Request : FieldsSame(r)
      BY <1>1, <2>1, FieldsKept
    <2>3. /\ timer' \in [Request -> TimerStates]
          /\ \A r \in Request : timer'[r] # "unset" <=> timer[r] # "unset"
      BY <1>1, <1>4 DEF StopTimer
    <2> QED BY <2>2, <2>3
  <1>6. /\ outcome' \in [Task -> Queue!Fate]
        /\ \A u \in Task : u # DeleteRequestTask(q) => outcome'[u] = outcome[u]
        /\ outcome'[DeleteRequestTask(q)] = "new" <=>
               ~(stage'[q] = "destroyed" /\ f[q].isIncreaseRecorded)
    <2>1. CASE /\ f[q].isIncreaseRecorded /\ Queue!Deliver(DeleteRequestTask(q))
               /\ stage' = [stage EXCEPT ![q] = "destroyed"]
      BY <2>1, <1>1, DispatchOne, TasksDiffer
    <2>2. ASSUME outcome' = outcome, stage'[q] = "destroyed" => ~f[q].isIncreaseRecorded
          PROVE  /\ outcome' \in [Task -> Queue!Fate]
                 /\ \A u \in Task : u # DeleteRequestTask(q) => outcome'[u] = outcome[u]
                 /\ outcome'[DeleteRequestTask(q)] = "new" <=>
                        ~(stage'[q] = "destroyed" /\ f[q].isIncreaseRecorded)
      <3>1. outcome[DeleteRequestTask(q)] = "new" /\ outcome \in [Task -> Queue!Fate]
        BY <1>1, <1>2 DEF Types, Bracket, Undispatched
      <3> QED BY <2>2, <3>1
    <2>3. \/ ~f[q].isIncreaseRecorded
          \/ \E place \in {"releasing", "leaked"} : stage' = [stage EXCEPT ![q] = place]
          => (stage'[q] = "destroyed" => ~f[q].isIncreaseRecorded)
      BY <1>1
    <2> QED BY <1>3, <2>1, <2>2, <2>3
  <1>7. Types'
    <2>1. stage' \in [Request -> Stages]
      BY <1>1, <1>2
    <2> QED BY <1>1, <1>2, <1>5, <1>6, <2>1 DEF Types
  <1>8. ASSUME NEW r \in Request PROVE Bracket(r)'
    <2>1. /\ Bracket(r) /\ outcome'[AddRequestTask(r)] = outcome[AddRequestTask(r)]
          /\ Calls(r)'
      <3>1. Bracket(r)
        BY DEF FInv
      <3>2. Calls(r)'
        BY <3>1, <1>2, CallsKept DEF Bracket
      <3> QED BY <3>1, <3>2, <1>6, TasksDiffer
    <2>2. CASE r # q
      <3>1. /\ outcome'[DeleteRequestTask(r)] = outcome[DeleteRequestTask(r)]
            /\ stage'[r] = stage[r]
        BY <2>1, <2>2, <1>1, <1>2, <1>6, TasksDiffer
      <3>2. chunk'[r] # NoChunk => stage'[r] = "responding"
        BY <2>1, <3>1, <1>2 DEF Bracket
      <3> QED BY <2>1, <3>1, <3>2, <1>2, <1>5, BracketKept DEF FieldsSame
    <2>3. CASE r = q
      <3>1. stage'[q] \in {"destroyed", "releasing", "leaked"}
        BY <1>1, <1>2
      <3>2. stage'[q] # "destroyed" => f[q].isIncreaseRecorded
        BY <1>1, <1>3
      <3> QED BY <2>1, <2>3, <3>1, <3>2, <1>2, <1>5, <1>6
              DEF Bracket, FieldsSame, Taken, Undispatched, AddRequestTask, DeleteRequestTask
    <2> QED BY <2>2, <2>3
  <1> QED BY <1>7, <1>8 DEF FInv

\* A handled task stays taken, and dispatched.
LEMMA HandleTaskStep ==
    ASSUME FInv, HandleTask
    PROVE  FInv'
  <1>1. PICK t \in Task, result \in Queue!Results : Queue!Handle(t, result)
    BY DEF HandleTask
  <1>2. UNCHANGED <<f, stage, chunk, held, output, call, timer>>
    BY DEF HandleTask, envoyVars
  <1>3. /\ outcome \in [Task -> Queue!Fate] /\ outcome[t] = "accepted"
        /\ outcome' = [outcome EXCEPT ![t] = result] /\ result \in {"ok", "failed"}
    BY <1>1 DEF FInv, Types, Queue!Handle, Queue!Results
  <1>4. Types'
    BY <1>2, <1>3 DEF FInv, Types, Queue!Fate
  <1>5. \A u \in Task : (Taken(u)' <=> Taken(u)) /\ (Undispatched(u)' <=> Undispatched(u))
    BY <1>3 DEF Taken, Undispatched
  <1>6. ASSUME NEW r \in Request PROVE Bracket(r)'
    <2>1. /\ outcome'[AddRequestTask(r)] \in {"accepted", "ok", "failed"}
                <=> outcome[AddRequestTask(r)] \in {"accepted", "ok", "failed"}
          /\ outcome'[AddRequestTask(r)] = "new" <=> outcome[AddRequestTask(r)] = "new"
          /\ outcome'[DeleteRequestTask(r)] = "new" <=> outcome[DeleteRequestTask(r)] = "new"
      BY <1>5, TasksDiffer DEF Taken, Undispatched
    <2>2. Bracket(r) /\ Calls(r)'
      BY <1>2, CallsKept DEF FInv, Bracket
    <2> QED BY <2>1, <2>2, <1>2
        DEF Bracket, Taken, Undispatched, AddRequestTask, DeleteRequestTask
  <1> QED BY <1>4, <1>6 DEF FInv

-----------------------------------------------------------------------------
LEMMA NextFInv == FInv /\ [Next]_vars => FInv'
  <1> SUFFICES ASSUME FInv, [Next]_vars PROVE FInv'
    OBVIOUS
  <1>1. ASSUME NEW q \in Request, Step(q) PROVE FInv'
    <2>1. ASSUME NEW hosts \in HostLists, NEW kind \in Kinds, ProcessRequest(q, hosts, kind)
          PROVE  FInv'
      BY <2>1, ProcessRequestStep
    <2>2. ASSUME OnDestroy(q) \/ StopAndRelease(q) PROVE FInv'
      BY <2>2, OnDestroyStep
    <2> QED BY <1>1, <2>1, <2>2, QuietSteps, OtherDispatches DEF Step, Continue
  <1>2. ASSUME HandleTask PROVE FInv'
    BY <1>2, HandleTaskStep
  <1>3. ASSUME UNCHANGED vars PROVE FInv'
    <2>1. UNCHANGED <<f, stage, chunk, held, output, call, timer, outcome>>
      BY <1>3 DEF vars
    <2>2. Types'
      BY <2>1 DEF FInv, Types
    <2>3. ASSUME NEW r \in Request  PROVE Bracket(r)'
      BY <2>1, CallsKept DEF FInv, Bracket, Taken, Undispatched, AddRequestTask, DeleteRequestTask
    <2> QED BY <2>2, <2>3 DEF FInv
  <1> QED BY <1>1, <1>2, <1>3 DEF Next

LEMMA FInvAlways == Spec => []FInv
  BY InitFInv, NextFInv, PTL DEF Spec

\* The fields of every filter, its timer, its calls and the fates of its tasks
\* keep their types, and only a request with an accepted add has a timer
\* (filter.go, every callback).
THEOREM FilterTypes == Spec => []TypeOK
  <1>1. FInv => TypeOK
    BY DEF FInv, Types, TypeOK, Bracket
  <1> QED BY <1>1, FInvAlways, PTL

\* A request's load is taken out of Metadata-Center exactly when it was put
\* there and the request is over (addRequest, decreaseRequest in OnDestroy).
THEOREM LoadBracketed == Spec => []AddBracketedByDelete
  <1>1. FInv => AddBracketedByDelete
    BY DEF FInv, AddBracketedByDelete, Bracket
  <1> QED BY <1>1, FInvAlways, PTL

-----------------------------------------------------------------------------
\* The refinement of LoadLease: the leases as Lease sees them.
Leases == [r \in Request |-> LeaseOf(r)]

\* No task but the add and the delete of a request matters to its lease, and
\* of these not how they were handled; besides, only whether it is abandoned.
LEMMA LeaseUnmoved ==
    ASSUME NEW r \in Request,
           Taken(AddRequestTask(r))' <=> Taken(AddRequestTask(r)),
           Taken(DeleteRequestTask(r))' <=> Taken(DeleteRequestTask(r)),
           Undispatched(DeleteRequestTask(r))' <=> Undispatched(DeleteRequestTask(r)),
           Abandoned(r)' <=> Abandoned(r)
    PROVE  LeaseOf(r)' = LeaseOf(r)
  BY DEF LeaseOf, AddRequestTask, DeleteRequestTask

LEMMA LeaseInit == Init => Lease!Init
  <1>1. Init => \A r \in Request : LeaseOf(r) = "none"
    BY TasksDiffer DEF Init, LeaseOf, Taken
  <1> QED BY <1>1 DEF Lease!Init

\* What the steps do with tasks.
LEMMA StepDispatches ==
    ASSUME FInv, [Next]_vars
    PROVE  \/ outcome' = outcome
           \/ \E t \in Task : Queue!Deliver(t) /\ t.op \notin {"AddRequest", "DeleteRequest"}
           \/ \E q \in Request : Queue!Deliver(AddRequestTask(q))
           \/ \E q \in Request : /\ Queue!Deliver(DeleteRequestTask(q)) /\ ~Abandoned(q)
                                 /\ f[q].isIncreaseRecorded
           \/ \E t \in Task, result \in Queue!Results : Queue!Handle(t, result)
  <1> DEFINE Other == \E t \in Task : Queue!Deliver(t)
                                      /\ t.op \notin {"AddRequest", "DeleteRequest"}
  <1>1. ASSUME NEW q \in Request,
               \/ \E e \in BOOLEAN : DecodeHeaders(q, e)
               \/ DecodeTrailers(q) \/ BadRequest(q)
               \/ \E data \in Chunks : EncodeData(q, data)
               \/ BufferData(q) \/ EndData(q) \/ ProcessResponseData(q)
               \/ EncodeTrailers(q) \/ TimerFires(q) \/ TimerDeletes(q)
               \/ \E site \in Sites : StopTimerAt(q, site)
        PROVE  outcome' = outcome
    BY <1>1 DEF DecodeHeaders, DecodeTrailers, BadRequest, EncodeData, BufferData, EndData,
                ProcessResponseData, EncodeTrailers, TimerFires, TimerDeletes, StopTimerAt
  <1>2. ASSUME NEW q \in Request, NEW hosts, NEW kind \in Kinds,
               ProcessRequest(q, hosts, kind)
        PROVE  outcome' = outcome \/ Queue!Deliver(AddRequestTask(q))
    BY <1>2 DEF ProcessRequest, AddRequest, Queue!Deliver
  <1>3. ASSUME NEW q \in Request, NEW ok \in BOOLEAN, NEW endStream \in BOOLEAN,
               EncodeHeaders(q, ok, endStream)
        PROVE  outcome' = outcome \/ Other
    <2>1. outcome' = outcome \/ Queue!Deliver(SaveKVCacheTask(q))
      BY <1>3 DEF EncodeHeaders, SaveKVCache
    <2>2. SaveKVCacheTask(q).op \notin {"AddRequest", "DeleteRequest"}
      BY DEF SaveKVCacheTask
    <2> QED BY <2>1, <2>2, TasksDiffer
  <1>4. ASSUME NEW q \in Request, NEW site \in Sites, DispatchDelete(q, site)
        PROVE  Other
    <2>1. Queue!Deliver(DeletePromptTask(q, site))
      BY <1>4 DEF DispatchDelete, Queue!Deliver
    <2>2. DeletePromptTask(q, site).op \notin {"AddRequest", "DeleteRequest"}
      BY DEF DeletePromptTask, Sites
    <2> QED BY <2>1, <2>2, TasksDiffer
  <1>5. ASSUME NEW q \in Request, OnDestroy(q) \/ StopAndRelease(q), ~Crashed
        PROVE  \/ outcome' = outcome
               \/ /\ Queue!Deliver(DeleteRequestTask(q)) /\ ~Abandoned(q)
                  /\ f[q].isIncreaseRecorded
    <2>1. stage[q] = "releasing" => f[q].isIncreaseRecorded
      BY DEF FInv, Bracket
    <2> QED BY <1>5, <2>1 DEF OnDestroy, StopAndRelease, Release, MustRelease, Abandoned
  <1>6. CASE HandleTask
    BY <1>6 DEF HandleTask
  <1>7. CASE UNCHANGED vars
    BY <1>7 DEF vars
  <1>8. ASSUME NEW q \in Request, Step(q), ~Crashed
        PROVE  \/ outcome' = outcome \/ Other
               \/ Queue!Deliver(AddRequestTask(q))
               \/ /\ Queue!Deliver(DeleteRequestTask(q)) /\ ~Abandoned(q)
                  /\ f[q].isIncreaseRecorded
    BY <1>8, <1>1, <1>2, <1>3, <1>4, <1>5 DEF Step, Continue
  <1> QED BY <1>6, <1>7, <1>8 DEF Next

\* What abandons requests: a panic of a timer goroutine all of them, a panic of
\* OnDestroy its own.
LEMMA AbandonSteps ==
    ASSUME FInv, [Next]_vars
    PROVE  \/ \A r \in Request : Abandoned(r)' <=> Abandoned(r)
           \/ outcome' = outcome /\ Crashed'
           \/ /\ outcome' = outcome
              /\ \E q \in Request : /\ f[q].isIncreaseRecorded /\ ~Abandoned(q)
                                    /\ Abandoned(q)'
                                    /\ Undispatched(DeleteRequestTask(q))
                                    /\ \A r \in Request \ {q} : Abandoned(r)' <=> Abandoned(r)
  <1>1. /\ Types /\ stage \in [Request -> Stages]
        /\ call \in [Request -> [Sites -> CallStates]]
        /\ \A r \in Request : (chunk[r] # NoChunk => stage[r] = "responding") /\ Calls(r)
    BY DEF FInv, Types, Bracket
  <1> DEFINE Lost == \A r \in Request : stage'[r] = "leaked" <=> stage[r] = "leaked"
             Dead == \A r \in Request :
                         call'[r]["timer"] = "panicked" <=> call[r]["timer"] = "panicked"
  <1>2. ASSUME Lost, Dead  PROVE \A r \in Request : Abandoned(r)' <=> Abandoned(r)
    BY <1>2 DEF Abandoned, Crashed
  <1>3. ASSUME NEW q \in Request, NEW from \in Stages \ {"leaked"}, NEW to \in Stages \ {"leaked"},
               stage[q] = from, stage' = [stage EXCEPT ![q] = to]
        PROVE  Lost
    BY <1>1, <1>3
  <1>4. ASSUME NEW q \in Request, NEW s \in Sites, NEW v \in CallStates,
               call' = [call EXCEPT ![q][s] = v], v # "panicked",
               s = "timer" => call[q]["timer"] # "panicked"
        PROVE  Dead
    BY <1>1, <1>4 DEF Sites
  <1>5. ASSUME NEW q \in Request, NEW s \in Sites, StartDelete(q, s),
               s = "timer" => call[q]["timer"] # "panicked"
        PROVE  Dead
    <2>1. PICK v \in {"stopping", "sending", "done"} : call' = [call EXCEPT ![q][s] = v]
      BY <1>5 DEF StartDelete, CheckTimer
    <2> QED BY <1>4, <1>5, <2>1
  <1>6. ASSUME NEW q \in Request, Step(q), ~StopAndRelease(q),
               \A site \in Sites : ~StopTimerAt(q, site)
        PROVE  Lost /\ Dead
    <2>1. ASSUME \/ \E e \in BOOLEAN : DecodeHeaders(q, e)
                 \/ DecodeTrailers(q) \/ BadRequest(q) \/ EncodeTrailers(q)
                 \/ \E hosts \in HostLists, kind \in Kinds : ProcessRequest(q, hosts, kind)
                 \/ \E ok, e \in BOOLEAN : EncodeHeaders(q, ok, e)
          PROVE  Lost /\ Dead
      <3>1. /\ call' = call
            /\ \E from, to \in Stages \ {"leaked"} :
                   stage[q] = from /\ stage' = [stage EXCEPT ![q] = to]
        BY <2>1 DEF DecodeHeaders, DecodeTrailers, BadRequest, EncodeTrailers, ProcessRequest,
                    EncodeHeaders, Enter
      <3> QED BY <1>3, <3>1
    <2>2. ASSUME NEW data \in Chunks, EncodeData(q, data)  PROVE Lost /\ Dead
      <3>1. "token" \in Sites /\ "token" # "timer"
        BY DEF Sites
      <3> QED BY <1>5, <2>2, <3>1 DEF EncodeData
    <2>3. ASSUME EndData(q) \/ TimerDeletes(q)  PROVE Lost /\ Dead
      <3>1. "end" \in Sites /\ "end" # "timer" /\ "timer" \in Sites
        BY DEF Sites
      <3> QED BY <1>5, <2>3, <3>1 DEF EndData, TimerDeletes, envoyVars
    <2>4. ASSUME BufferData(q) \/ TimerFires(q)  PROVE Lost /\ Dead
      BY <2>4 DEF BufferData, TimerFires, envoyVars
    <2>5. ASSUME ProcessResponseData(q)  PROVE Lost /\ Dead
      <3>1. /\ call' = call /\ stage[q] = "responding"
            /\ \E to \in Stages \ {"leaked"} : stage' = [stage EXCEPT ![q] = to]
        BY <1>1, <2>5 DEF ProcessResponseData, Enter, AfterData
      <3> QED BY <1>3, <3>1
    <2>6. ASSUME NEW site \in Sites, DispatchDelete(q, site)  PROVE Lost /\ Dead
      <3>1. /\ call' = [call EXCEPT ![q][site] = "done"] /\ stage' = stage
            /\ site = "timer" => call[q]["timer"] # "panicked"
        BY <2>6 DEF DispatchDelete, envoyVars
      <3> QED BY <1>4, <3>1
    <2>7. ASSUME OnDestroy(q)  PROVE Lost /\ Dead
      <3>1. /\ call' = call
            /\ \E from, to \in Stages \ {"leaked"} :
                   stage[q] = from /\ stage' = [stage EXCEPT ![q] = to]
        BY <1>1, <2>7 DEF OnDestroy, Release, Enter
      <3> QED BY <1>3, <3>1
    <2> QED BY <1>6, <2>1, <2>2, <2>3, <2>4, <2>5, <2>6, <2>7 DEF Step, Continue
  <1>7. ASSUME NEW q \in Request, NEW site \in Sites, StopTimerAt(q, site)
        PROVE  (Lost /\ Dead) \/ (outcome' = outcome /\ Crashed')
    <2>1. outcome' = outcome /\ call[q][site] = "stopping"
      BY <1>7 DEF StopTimerAt
    <2>2. CASE call' = [call EXCEPT ![q][site] = "sending"] /\ stage' = stage
      BY <1>4, <2>1, <2>2
    <2>3. CASE site = "timer" /\ call' = [call EXCEPT ![q]["timer"] = "panicked"]
      <3>1. call'[q]["timer"] = "panicked"
        BY <1>1, <2>3 DEF Sites
      <3> QED BY <2>1, <3>1 DEF Crashed
    <2>4. CASE /\ site # "timer" /\ call' = [call EXCEPT ![q][site] = "panicked"]
               /\ stage' = [stage EXCEPT ![q] = "panicked"]
      <3>1. Dead
        BY <1>1, <2>4
      <3>2. stage[q] = "responding"
        BY <1>1, <2>1, <2>4 DEF Calls, CallbackFree, Sites
      <3> QED BY <1>3, <2>4, <3>1, <3>2
    <2> QED BY <1>7, <2>2, <2>3, <2>4 DEF StopTimerAt, Panic, Enter, envoyVars
  <1>8. ASSUME NEW q \in Request, StopAndRelease(q), ~Crashed
        PROVE  \/ Lost /\ Dead
               \/ /\ outcome' = outcome
                  /\ f[q].isIncreaseRecorded /\ ~Abandoned(q) /\ Abandoned(q)'
                  /\ Undispatched(DeleteRequestTask(q))
                  /\ \A r \in Request \ {q} : Abandoned(r)' <=> Abandoned(r)
    <2>1. /\ stage[q] = "releasing" /\ call' = call
          /\ f[q].isIncreaseRecorded /\ Undispatched(DeleteRequestTask(q))
      BY <1>8 DEF StopAndRelease, FInv, Bracket
    <2>2. CASE stage' = [stage EXCEPT ![q] = "destroyed"]
      BY <1>3, <2>1, <2>2
    <2>3. CASE stage' = [stage EXCEPT ![q] = "leaked"] /\ outcome' = outcome
      BY <1>1, <1>8, <2>1, <2>3 DEF Abandoned, Crashed
    <2> QED BY <1>8, <2>2, <2>3 DEF StopAndRelease, Release, Enter
  <1>9. ASSUME HandleTask \/ UNCHANGED vars  PROVE Lost /\ Dead
    BY <1>9 DEF HandleTask, envoyVars, vars
  <1> QED BY <1>2, <1>6, <1>7, <1>8, <1>9 DEF Next

LEMMA LeaseStep ==
    ASSUME FInv, [Next]_vars
    PROVE  [Lease!Next]_Leases
  <1>1. Types
    BY DEF FInv
  <1>s. ASSUME \A r \in Request : LeaseOf(r)' = LeaseOf(r)  PROVE Leases' = Leases
    BY <1>s DEF Leases
  <1>m. ASSUME NEW q \in Request, \A r \in Request \ {q} : LeaseOf(r)' = LeaseOf(r)
        PROVE  Leases' = [Leases EXCEPT ![q] = LeaseOf(q)']
    BY <1>m DEF Leases
  <1> DEFINE Steady == \A r \in Request : Abandoned(r)' <=> Abandoned(r)
  <1>2. ASSUME Steady, NEW t \in Task, Queue!Deliver(t), t.op \notin {"AddRequest", "DeleteRequest"}
        PROVE  Leases' = Leases
    BY <1>1, <1>2, <1>s, OtherTask, LeaseUnmoved
       DEF Taken, Undispatched, AddRequestTask, DeleteRequestTask
  <1>3. ASSUME Steady, NEW q \in Request, Queue!Deliver(AddRequestTask(q))
        PROVE  Lease!Take(q) \/ Leases' = Leases
    <2>1. ASSUME NEW r \in Request \ {q}  PROVE LeaseOf(r)' = LeaseOf(r)
      <3>1. /\ outcome'[AddRequestTask(r)] = outcome[AddRequestTask(r)]
            /\ outcome'[DeleteRequestTask(r)] = outcome[DeleteRequestTask(r)]
        BY <1>1, <1>3, DispatchOne, TasksDiffer
      <3> QED BY <1>3, <3>1, LeaseUnmoved DEF Taken, Undispatched, AddRequestTask, DeleteRequestTask
    <2>0. ~Crashed /\ ~Abandoned(q)
      <3>1. CASE outcome' = outcome
        BY <1>1, <1>3, <3>1, DispatchOne, TasksDiffer
      <3>2. outcome' # outcome => ~Crashed
        BY DEF Next, vars
      <3>3. stage[q] # "leaked"
        BY <1>1, <1>3, DispatchOne, TasksDiffer DEF FInv, Bracket, Taken
      <3> QED BY <3>1, <3>2, <3>3 DEF Abandoned
    <2>2. /\ LeaseOf(q) = "none" /\ outcome[DeleteRequestTask(q)] = "new"
          /\ outcome'[DeleteRequestTask(q)] = "new"
          /\ outcome'[AddRequestTask(q)] \in {"accepted", "dropped"}
      BY <1>1, <1>3, DispatchOne, TasksDiffer
         DEF LeaseOf, FInv, Bracket, Taken, Undispatched
    <2>3. LeaseOf(q)' \in {"none", "held"}
      BY <1>3, <2>0, <2>2 DEF LeaseOf, Taken, Undispatched, AddRequestTask, DeleteRequestTask
    <2> QED BY <1>m, <2>1, <2>2, <2>3 DEF Lease!Take, Lease!Become, Leases
  <1>4. ASSUME Steady, NEW q \in Request, Queue!Deliver(DeleteRequestTask(q)), ~Abandoned(q),
               f[q].isIncreaseRecorded
        PROVE  Lease!GiveBack(q) \/ Lease!Leak(q)
    <2>1. ASSUME NEW r \in Request \ {q}  PROVE LeaseOf(r)' = LeaseOf(r)
      <3>1. /\ outcome'[AddRequestTask(r)] = outcome[AddRequestTask(r)]
            /\ outcome'[DeleteRequestTask(r)] = outcome[DeleteRequestTask(r)]
        BY <1>1, <1>4, DispatchOne, TasksDiffer
      <3> QED BY <1>4, <3>1, LeaseUnmoved DEF Taken, Undispatched, AddRequestTask, DeleteRequestTask
    <2>2. /\ LeaseOf(q) = "held"
          /\ outcome'[AddRequestTask(q)] = outcome[AddRequestTask(q)]
          /\ Taken(AddRequestTask(q))
          /\ outcome'[DeleteRequestTask(q)] \in {"accepted", "dropped"}
      BY <1>1, <1>4, DispatchOne, TasksDiffer
         DEF LeaseOf, FInv, Bracket, Taken, Undispatched
    <2>3. LeaseOf(q)' \in {"returned", "leaked"}
      BY <2>2 DEF LeaseOf, Taken, Undispatched, AddRequestTask, DeleteRequestTask
    <2> QED BY <1>m, <2>1, <2>2, <2>3 DEF Lease!GiveBack, Lease!Leak, Lease!Become, Leases
  <1>5. ASSUME Steady, NEW t \in Task, NEW result \in Queue!Results, Queue!Handle(t, result)
        PROVE  Leases' = Leases
    <2>1. /\ outcome \in [Task -> Queue!Fate] /\ outcome[t] = "accepted"
          /\ outcome' = [outcome EXCEPT ![t] = result] /\ result \in {"ok", "failed"}
      BY <1>1, <1>5 DEF Types, Queue!Handle, Queue!Results
    <2>2. ASSUME NEW u \in Task
          PROVE  (Taken(u)' <=> Taken(u)) /\ (Undispatched(u)' <=> Undispatched(u))
      BY <2>1 DEF Taken, Undispatched
    <2> QED BY <1>5, <1>s, <2>2, TasksDiffer, LeaseUnmoved
  <1>6. CASE Steady /\ outcome' = outcome
    BY <1>6, <1>s, LeaseUnmoved DEF Taken, Undispatched, AddRequestTask, DeleteRequestTask
  <1>7. CASE Steady
    BY <1>2, <1>3, <1>4, <1>5, <1>6, <1>7, StepDispatches DEF Lease!Next
  <1>8. CASE outcome' = outcome /\ Crashed'
    <2>1. \A r \in Request : LeaseOf(r)' = IF LeaseOf(r) = "held" THEN "leaked" ELSE LeaseOf(r)
      BY <1>8 DEF LeaseOf, Abandoned, Taken, Undispatched, AddRequestTask, DeleteRequestTask
    <2> QED BY <2>1 DEF Lease!Next, Lease!Crash, Leases
  <1>9. ASSUME outcome' = outcome, NEW q \in Request, f[q].isIncreaseRecorded, ~Abandoned(q),
               Abandoned(q)', Undispatched(DeleteRequestTask(q)),
               \A r \in Request \ {q} : Abandoned(r)' <=> Abandoned(r)
        PROVE  Lease!Leak(q)
    <2>1. ASSUME NEW r \in Request \ {q}  PROVE LeaseOf(r)' = LeaseOf(r)
      BY <1>9, LeaseUnmoved DEF Taken, Undispatched, AddRequestTask, DeleteRequestTask
    <2>2. Taken(AddRequestTask(q)) /\ ~Taken(DeleteRequestTask(q))
      BY <1>9 DEF FInv, Bracket, Taken, Undispatched
    <2>3. LeaseOf(q) = "held" /\ LeaseOf(q)' = "leaked"
      BY <1>9, <2>2 DEF LeaseOf, Taken, Undispatched, AddRequestTask, DeleteRequestTask
    <2> QED BY <1>m, <2>1, <2>3 DEF Lease!Leak, Lease!Become, Leases
  <1> QED BY <1>7, <1>8, <1>9, AbandonSteps DEF Lease!Next

\* Every request's load is a lease that is taken once at most, given back once
\* at most, only after it was taken, and lost only to a full queue or a panic (the
\* safety part of LeaseKept; that it does not stay held is left to the run).
THEOREM LeaseSafe == Spec => Lease!Init /\ [][Lease!Next]_Leases
  BY LeaseInit, LeaseStep, FInvAlways, PTL DEF Spec

-----------------------------------------------------------------------------
\* An emptied response has its rest dropped, and dropRespData is never taken back.
Dropping(r) == output[r] = "emptied" => f[r].dropRespData

\* Only data that Envoy holds back may still pass, and not by a callback for data.
Cut(r) == output[r] = "emptied" /\ output'[r] # "emptied" => held[r] /\ chunk[r] = NoChunk

LEMMA DropStays ==
    ASSUME FInv, [Next]_vars, NEW r \in Request, Dropping(r)
    PROVE  Dropping(r)' /\ Cut(r)
  <1>1. /\ f \in [Request -> FilterState]
        /\ output \in [Request -> {"none", "passed", "emptied"}]
    BY DEF FInv, Types
  <1> DEFINE Kept == output' = output /\ f'[r].dropRespData = f[r].dropRespData
  <1>2. ASSUME Kept  PROVE Dropping(r)' /\ Cut(r)
    BY <1>2 DEF Dropping, Cut
  <1>3. ASSUME NEW q \in Request,
               \/ \E e \in BOOLEAN : DecodeHeaders(q, e)
               \/ DecodeTrailers(q) \/ BadRequest(q)
               \/ BufferData(q) \/ EndData(q) \/ TimerFires(q) \/ TimerDeletes(q)
               \/ OnDestroy(q)
        PROVE  Kept
    BY <1>3 DEF DecodeHeaders, DecodeTrailers, BadRequest, BufferData,
                EndData, TimerFires, TimerDeletes, OnDestroy, envoyVars
  <1>4. ASSUME NEW q \in Request, NEW hosts, NEW kind \in Kinds,
               ProcessRequest(q, hosts, kind)
        PROVE  Kept
    BY <1>1, <1>4 DEF ProcessRequest, FilterState
  <1>5. ASSUME NEW q \in Request, NEW ok \in BOOLEAN, NEW e \in BOOLEAN,
               EncodeHeaders(q, ok, e)
        PROVE  Kept
    BY <1>1, <1>5 DEF EncodeHeaders, FilterState
  <1>6. ASSUME NEW q \in Request, NEW data \in Chunks, EncodeData(q, data)  PROVE Kept
    BY <1>1, <1>6 DEF EncodeData, FilterState
  <1>7. ASSUME NEW q \in Request, NEW site \in Sites, DispatchDelete(q, site)  PROVE Kept
    BY <1>1, <1>7 DEF DispatchDelete, envoyVars, FilterState
  <1>8. ASSUME NEW q \in Request, ProcessResponseData(q)
        PROVE  Dropping(r)' /\ Cut(r)
    BY <1>1, <1>8 DEF ProcessResponseData, DropRest, Dropping, Cut, FilterState
  <1>9. ASSUME HandleTask \/ UNCHANGED vars  PROVE Kept
    BY <1>9 DEF HandleTask, envoyVars, vars
  <1>10. ASSUME NEW q \in Request, EncodeTrailers(q)  PROVE Dropping(r)' /\ Cut(r)
    BY <1>1, <1>10 DEF EncodeTrailers, Dropping, Cut
  <1>11. ASSUME NEW q \in Request, \/ \E site \in Sites : StopTimerAt(q, site)
                                  \/ StopAndRelease(q)
         PROVE  Kept
    <2>1. output' = output /\ (f' = f \/ StopTimer(q))
      BY <1>11 DEF StopTimerAt, Panic, StopAndRelease, envoyVars
    <2> QED BY <1>1, <2>1 DEF StopTimer, FilterState
  <1> QED
    BY <1>10, <1>11, <1>2, <1>3, <1>4, <1>5, <1>6, <1>7, <1>8, <1>9 DEF Next, Step, Continue

\* Once a stream error has emptied the response, none of the data that the filter
\* processes passes any more, also on the non-streaming path; what passes has been
\* held back and ends with trailers (processResponseData, EncodeTrailers).
THEOREM ErrorsCut == Spec => ErrorCutsResponse
  <1>1. Init => \A r \in Request : Dropping(r)
    BY DEF Init, Dropping
  <1>2. FInv /\ (\A r \in Request : Dropping(r)) /\ [Next]_vars =>
            (\A r \in Request : Dropping(r))'
    BY DropStays
  <1>3. FInv /\ (\A r \in Request : Dropping(r)) /\ [Next]_vars =>
            [\A r \in Request : output[r] = "emptied" /\ output'[r] # "emptied" =>
                 held[r] /\ chunk[r] = NoChunk]_vars
    BY DropStays DEF Cut
  <1> QED BY <1>1, <1>2, <1>3, FInvAlways, PTL DEF Spec, ErrorCutsResponse

-----------------------------------------------------------------------------
Sent(r, s) == DeletePromptTask(r, s)

\* The order of the three call sites: the timer is set by an accepted add of a
\* non-streaming request and by nothing else, and never forgotten while it may
\* fire; the first token comes before the end, and a callback does not return
\* before its call has; and the flag is set exactly when a deletion was accepted.
Prompt(r) ==
    /\ stage[r] \in {"new", "body"} =>
           ~f[r].isStream /\ ~f[r].firstToken /\ timer[r] = "unset"
    /\ stage[r] \in {"releasing", "destroyed", "leaked"} => chunk[r] = NoChunk
    /\ timer[r] = "pending" => f[r].promptDecreaseTimer /\ stage[r] \notin Over
    /\ f[r].isStream => timer[r] = "unset"
    /\ call[r]["timer"] # "idle" => timer[r] = "fired"
    /\ chunk[r] # NoChunk \/ call[r]["token"] # "idle" \/ call[r]["end"] # "idle" =>
           f[r].firstToken
    /\ call[r]["token"] \in Busy => call[r]["end"] = "idle"
    /\ call[r]["end"] \in Busy => ~Taken(Sent(r, "token"))
    /\ ~(Taken(Sent(r, "token")) /\ Taken(Sent(r, "end")))
    /\ \A s \in Sites :
           /\ call[r][s] # "done" => Undispatched(Sent(r, s))
           /\ call[r][s] \in Busy \/ ~Undispatched(Sent(r, s)) => f[r].isIncreaseRecorded
           /\ Taken(Sent(r, s)) => f[r].isPromptLengthDeleted
           /\ call[r][s] = "done" /\ f[r].isIncreaseRecorded =>
                  f[r].isPromptLengthDeleted \/ outcome[Sent(r, s)] = "dropped"
    /\ f[r].isPromptLengthDeleted => \E s \in Sites : Taken(Sent(r, s))

\* The two sides of the race for promptDecreaseTimer: the timer goroutine has
\* left its nil check behind, or a callback or OnDestroy has.
TimerPast(r) == timer[r] = "fired" /\ call[r]["timer"] \notin {"idle", "stopping"}
OtherPast(r) == call[r]["token"] # "idle" \/ call[r]["end"] # "idle" \/ stage[r] \in Over

\* Between the nil check and the Stop of one side only the other makes it nil.
Race(r) ==
    /\ ~f[r].promptDecreaseTimer =>
           /\ stage[r] = "releasing" => TimerPast(r)
           /\ call[r]["token"] = "stopping" \/ call[r]["end"] = "stopping" => TimerPast(r)
           /\ call[r]["timer"] = "stopping" => OtherPast(r)
    /\ (\E s \in Sites : call[r][s] = "panicked") \/ stage[r] = "leaked" =>
           TimerPast(r) /\ OtherPast(r)

PInv == FInv /\ \A r \in Request : Prompt(r) /\ Race(r)

LEMMA SentDiffer ==
    ASSUME NEW r \in Request, NEW s \in Sites
    PROVE  /\ Sent(r, s) \in Task
           /\ \A q \in Request :
                 /\ Sent(r, s) # AddRequestTask(q) /\ Sent(r, s) # DeleteRequestTask(q)
                 /\ Sent(r, s) # SaveKVCacheTask(q)
                 /\ \A t \in Sites : Sent(r, s) = Sent(q, t) => r = q /\ s = t
  BY DEF Sent, Task, Sites, AddRequestTask, DeleteRequestTask, SaveKVCacheTask,
         DeletePromptTask

LEMMA InitPInv == Init => PInv
  <1> SUFFICES ASSUME Init PROVE PInv
    OBVIOUS
  <1>1. ASSUME NEW r \in Request PROVE Prompt(r) /\ Race(r)
    BY SentDiffer
       DEF Init, Prompt, Race, NewFilter, Busy, Over, Taken, Undispatched, Sites
  <1> QED BY <1>1, InitFInv DEF PInv

-----------------------------------------------------------------------------
\* What the deletions of a request do not notice.
LEMMA PromptKept ==
    ASSUME NEW r \in Request, Prompt(r),
           f'[r].isStream = f[r].isStream, f'[r].firstToken = f[r].firstToken,
           f'[r].isIncreaseRecorded = f[r].isIncreaseRecorded,
           f'[r].isPromptLengthDeleted = f[r].isPromptLengthDeleted,
           f'[r].promptDecreaseTimer = f[r].promptDecreaseTimer,
           stage'[r] \in {"new", "body"} => stage[r] \in {"new", "body"},
           stage'[r] \in {"releasing", "destroyed", "leaked"} => stage'[r] = stage[r],
           timer'[r] = timer[r], chunk'[r] = chunk[r], call'[r] = call[r],
           \A s \in Sites :
               /\ Taken(Sent(r, s))' <=> Taken(Sent(r, s))
               /\ Undispatched(Sent(r, s))' <=> Undispatched(Sent(r, s))
               /\ outcome'[Sent(r, s)] = "dropped" <=> outcome[Sent(r, s)] = "dropped"
    PROVE  Prompt(r)'
  BY DEF Prompt, Over, Sent, DeletePromptTask, Sites

\* The same when nothing happens to the request's own tasks.
LEMMA PromptSame ==
    ASSUME NEW r \in Request, Prompt(r),
           f'[r].isStream = f[r].isStream, f'[r].firstToken = f[r].firstToken,
           f'[r].isIncreaseRecorded = f[r].isIncreaseRecorded,
           f'[r].isPromptLengthDeleted = f[r].isPromptLengthDeleted,
           f'[r].promptDecreaseTimer = f[r].promptDecreaseTimer,
           stage'[r] \in {"new", "body"} => stage[r] \in {"new", "body"},
           stage'[r] \in {"releasing", "destroyed", "leaked"} => stage'[r] = stage[r],
           timer'[r] = timer[r], chunk'[r] = chunk[r], call'[r] = call[r],
           \A s \in Sites : outcome'[Sent(r, s)] = outcome[Sent(r, s)]
    PROVE  Prompt(r)'
  BY PromptKept DEF Taken, Undispatched, Sent, DeletePromptTask

\* What the race does not notice.
LEMMA RaceKept ==
    ASSUME NEW r \in Request, Race(r),
           f'[r].promptDecreaseTimer = f[r].promptDecreaseTimer,
           stage'[r] \in {"releasing", "leaked"} => stage'[r] = stage[r],
           stage[r] \in Over => stage'[r] \in Over,
           timer[r] = "fired" => timer'[r] = "fired",
           call'[r] = call[r]
    PROVE  Race(r)'
  BY DEF Race, TimerPast, OtherPast, Over

\* A step of one request leaves the others alone.
LEMMA OthersAlone ==
    ASSUME FInv, NEW q \in Request, Step(q), NEW r \in Request, r # q
    PROVE  /\ f'[r] = f[r] /\ stage'[r] = stage[r] /\ timer'[r] = timer[r]
           /\ chunk'[r] = chunk[r] /\ call'[r] = call[r]
           /\ \A t \in Task : t.req = r => outcome'[t] = outcome[t]
           /\ \A s \in Sites : outcome'[Sent(r, s)] = outcome[Sent(r, s)]
  <1>1. /\ f \in [Request -> FilterState] /\ Types
        /\ stage \in [Request -> Stages]
        /\ timer \in [Request -> TimerStates]
        /\ chunk \in [Request -> Chunks \cup {NoChunk}]
        /\ call \in [Request -> [Sites -> CallStates]]
    BY DEF FInv, Types
  <1> DEFINE Alone == /\ f'[r] = f[r] /\ stage'[r] = stage[r] /\ timer'[r] = timer[r]
                      /\ chunk'[r] = chunk[r] /\ call'[r] = call[r]
             SameTasks == \A t \in Task : t.req = r => outcome'[t] = outcome[t]
  <1>2. ASSUME NEW t \in Task, Queue!Deliver(t), t.req = q
        PROVE  SameTasks
    BY <1>1, <1>2, DispatchOne
  <1>t. /\ AddRequestTask(q).req = q /\ DeleteRequestTask(q).req = q
        /\ SaveKVCacheTask(q).req = q
        /\ \A s \in Sites : Sent(q, s).req = q /\ Sent(r, s).req = r /\ Sent(r, s) \in Task
    BY SentDiffer DEF AddRequestTask, DeleteRequestTask, SaveKVCacheTask, Sent, DeletePromptTask
  <1>3. ASSUME NEW e \in BOOLEAN, DecodeHeaders(q, e)  PROVE Alone /\ SameTasks
    BY <1>1, <1>3 DEF DecodeHeaders, Enter
  <1>4. ASSUME DecodeTrailers(q) \/ BadRequest(q) \/ EncodeTrailers(q)
        PROVE  Alone /\ SameTasks
    BY <1>1, <1>4 DEF DecodeTrailers, BadRequest, EncodeTrailers, Enter
  <1>5. ASSUME NEW hosts, NEW kind \in Kinds, ProcessRequest(q, hosts, kind)
        PROVE  Alone /\ SameTasks
    <2>1. outcome' = outcome \/ Queue!Deliver(AddRequestTask(q))
      BY <1>5 DEF ProcessRequest, AddRequest, Queue!Deliver
    <2>2. SameTasks
      BY <1>2, <1>t, <2>1, TasksDiffer
    <2>3. Alone
      BY <1>1, <1>5 DEF ProcessRequest, AddRequest, Enter
    <2> QED BY <2>2, <2>3
  <1>6. ASSUME NEW ok \in BOOLEAN, NEW e \in BOOLEAN, EncodeHeaders(q, ok, e)
        PROVE  Alone /\ SameTasks
    <2>1. outcome' = outcome \/ Queue!Deliver(SaveKVCacheTask(q))
      BY <1>6 DEF EncodeHeaders, SaveKVCache
    <2>2. SameTasks
      BY <1>2, <1>t, <2>1, TasksDiffer
    <2>3. Alone
      BY <1>1, <1>6 DEF EncodeHeaders, Enter
    <2> QED BY <2>2, <2>3
  <1>7. ASSUME NEW data \in Chunks, EncodeData(q, data)  PROVE Alone /\ SameTasks
    BY <1>1, <1>7 DEF EncodeData, StartDelete
  <1>8. ASSUME BufferData(q) \/ EndData(q) \/ TimerFires(q) \/ TimerDeletes(q)
        PROVE  Alone /\ SameTasks
    BY <1>1, <1>8 DEF BufferData, EndData, TimerFires, TimerDeletes, StartDelete,
                      Return, envoyVars
  <1>9. ASSUME ProcessResponseData(q)  PROVE Alone /\ SameTasks
    BY <1>1, <1>9 DEF ProcessResponseData, DropRest, Return, Enter
  <1>10. ASSUME NEW site \in Sites, DispatchDelete(q, site)  PROVE Alone /\ SameTasks
    <2>1. Queue!Deliver(Sent(q, site))
      BY <1>10 DEF DispatchDelete, Queue!Deliver, Sent
    <2>2. SameTasks
      BY <1>2, <1>t, <2>1, SentDiffer
    <2>3. Alone
      BY <1>1, <1>10 DEF DispatchDelete, envoyVars
    <2> QED BY <2>2, <2>3
  <1>11. ASSUME OnDestroy(q) \/ StopAndRelease(q)  PROVE Alone /\ SameTasks
    <2>1. outcome' = outcome \/ Queue!Deliver(DeleteRequestTask(q))
      BY <1>11 DEF OnDestroy, StopAndRelease, Release
    <2>2. SameTasks
      BY <1>2, <1>t, <2>1, TasksDiffer
    <2>3. Alone
      BY <1>1, <1>11 DEF OnDestroy, StopAndRelease, Release, StopTimer, Enter
    <2> QED BY <2>2, <2>3
  <1>12. ASSUME NEW site \in Sites, StopTimerAt(q, site)  PROVE Alone /\ SameTasks
    <2>1. /\ outcome' = outcome /\ (UNCHANGED <<f, timer>> \/ StopTimer(q))
          /\ \E v \in CallStates : call' = [call EXCEPT ![q][site] = v]
          /\ UNCHANGED <<stage, chunk>> \/ (Enter(q, "panicked") /\ Return(q))
      BY <1>12 DEF StopTimerAt, Panic, envoyVars
    <2>2. f'[r] = f[r] /\ timer'[r] = timer[r]
      BY <1>1, <2>1 DEF StopTimer
    <2>3. call'[r] = call[r]
      BY <1>1, <2>1
    <2>4. stage'[r] = stage[r] /\ chunk'[r] = chunk[r]
      BY <1>1, <2>1 DEF Enter, Return
    <2> QED BY <2>1, <2>2, <2>3, <2>4
  <1>13. Alone /\ SameTasks
    BY <1>3, <1>4, <1>5, <1>6, <1>7, <1>8, <1>9, <1>10, <1>11, <1>12 DEF Step, Continue
  <1> QED BY <1>t, <1>13

-----------------------------------------------------------------------------
\* One step of deletePromptLength, seen from its request.
LEMMA StartDeleteAt ==
    ASSUME Types, NEW q \in Request, NEW s \in Sites, StartDelete(q, s)
    PROVE  /\ call'[q][s] = IF MayDelete(q) THEN CheckTimer(q) ELSE "done"
           /\ \A t \in Sites : t # s => call'[q][t] = call[q][t]
  <1> DEFINE v == IF MayDelete(q) THEN CheckTimer(q) ELSE "done"
  <1>1. call' = [call EXCEPT ![q][s] = v]
    BY DEF StartDelete
  <1> HIDE DEF v
  <1>2. call'[q][s] = v /\ \A t \in Sites : t # s => call'[q][t] = call[q][t]
    BY <1>1, CallAt
  <1> QED BY <1>2 DEF v

\* What deletePromptLength can rely on in a request that is responding.
LEMMA MayDeleteMeans ==
    ASSUME FInv, NEW q \in Request
    PROVE  MayDelete(q) <=> f[q].isIncreaseRecorded /\ ~f[q].isPromptLengthDeleted
  BY DEF MayDelete, FInv, Bracket

LEMMA StagePrompt ==
    ASSUME PInv, NEW q \in Request,
           \/ \E e \in BOOLEAN : DecodeHeaders(q, e)
           \/ DecodeTrailers(q) \/ BadRequest(q) \/ EncodeTrailers(q)
    PROVE  Prompt(q)' /\ Race(q)'
  <1>1. PICK place \in {"body", "replied", "forwarded", "ended"} :
            /\ stage' = [stage EXCEPT ![q] = place]
            /\ place = "body" => stage[q] = "new"
            /\ stage[q] \notin Over
            /\ UNCHANGED <<f, chunk, call, timer, outcome>>
    BY DEF DecodeHeaders, DecodeTrailers, BadRequest, EncodeTrailers, Enter, Over
  <1>2. stage'[q] = place
    BY <1>1 DEF PInv, FInv, Types
  <1> QED BY <1>1, <1>2, PromptSame, RaceKept DEF PInv

LEMMA ProcessRequestPrompt ==
    ASSUME PInv, NEW q \in Request, NEW hosts, NEW kind \in Kinds,
           ProcessRequest(q, hosts, kind)
    PROVE  Prompt(q)' /\ Race(q)'
  <1>1. /\ Types /\ f \in [Request -> FilterState] /\ f[q] \in FilterState
        /\ kind.loadAware \in BOOLEAN /\ kind.stream \in BOOLEAN
        /\ timer \in [Request -> TimerStates]
        /\ stage[q] = "body" /\ Prompt(q) /\ Bracket(q)
    BY FilterAssumption DEF PInv, FInv, Types, ProcessRequest
  <1>2. /\ ~f[q].isStream /\ ~f[q].firstToken /\ timer[q] = "unset"
        /\ ~f[q].isIncreaseRecorded /\ ~f[q].isPromptLengthDeleted
        /\ \A s \in Sites : call[q][s] = "idle" /\ outcome[Sent(q, s)] = "new"
        /\ chunk[q] = NoChunk
    <2>1. ~f[q].isIncreaseRecorded /\ chunk[q] = NoChunk
      BY <1>1 DEF Bracket, Taken, Undispatched
    <2>2. \A s \in Sites : call[q][s] = "idle"
      BY <1>1, <2>1 DEF Prompt, Sites
    <2> QED BY <1>1, <2>1, <2>2 DEF Prompt, Taken, Undispatched
  <1>3. /\ chunk' = chunk /\ call' = call
        /\ stage'[q] \in {"replied", "forwarded"}
    BY <1>1 DEF ProcessRequest, Enter, Types
  <1>4. outcome' = outcome \/ Queue!Deliver(AddRequestTask(q))
    BY DEF ProcessRequest, AddRequest, Queue!Deliver
  <1>5. \A s \in Sites : outcome'[Sent(q, s)] = "new"
    BY <1>1, <1>2, <1>4, DispatchOne, SentDiffer, TasksDiffer
  <1>6. /\ f'[q].firstToken = f[q].firstToken
        /\ f'[q].isPromptLengthDeleted = f[q].isPromptLengthDeleted
    BY <1>1 DEF ProcessRequest, FilterState
  <1>7. \/ timer'[q] = "unset"
        \/ /\ timer'[q] = "pending" /\ f'[q].promptDecreaseTimer
           /\ f'[q].isIncreaseRecorded /\ f'[q].isStream = FALSE
    <2>1. CASE UNCHANGED timer
      BY <1>2, <2>1
    <2>2. ASSUME kind.loadAware, AddRequest(q, kind.stream),
                 f' = [f EXCEPT ![q].loadAware = kind.loadAware,
                                ![q].hashed = kind.hashed,
                                ![q].isStream = kind.stream,
                                ![q].isIncreaseRecorded = kind.loadAware /\ Recorded(q),
                                ![q].promptDecreaseTimer =
                                    kind.loadAware /\ Recorded(q) /\ ~kind.stream]
          PROVE  \/ timer'[q] = "unset"
                 \/ /\ timer'[q] = "pending" /\ f'[q].promptDecreaseTimer
                    /\ f'[q].isIncreaseRecorded /\ f'[q].isStream = FALSE
      <3>1. CASE Queue!Drop(AddRequestTask(q)) /\ UNCHANGED timer
        BY <1>2, <3>1
      <3>2. CASE /\ Queue!Accept(AddRequestTask(q))
                 /\ timer' = [timer EXCEPT ![q] = IF kind.stream THEN @ ELSE "pending"]
        <4>1. Recorded(q)
          BY <1>1, <3>2, TasksDiffer DEF Queue!Accept, Recorded, Types
        <4>2. /\ f'[q].isIncreaseRecorded /\ f'[q].isStream = kind.stream
              /\ kind.stream = FALSE => f'[q].promptDecreaseTimer
          BY <1>1, <2>2, <4>1 DEF FilterState
        <4>3. timer'[q] = IF kind.stream THEN "unset" ELSE "pending"
          BY <1>1, <1>2, <3>2
        <4> QED BY <1>1, <4>2, <4>3
      <3> QED BY <2>2, <3>1, <3>2 DEF AddRequest
    <2> QED BY <2>1, <2>2 DEF ProcessRequest
  <1>8. f'[q].isStream => timer'[q] = "unset"
    BY <1>7
  <1>9. Prompt(q)'
    BY <1>2, <1>3, <1>5, <1>6, <1>7, <1>8
       DEF Prompt, Busy, Over, Taken, Undispatched, Sent, DeletePromptTask, Sites
  <1>10. Race(q)'
    BY <1>2, <1>3 DEF Race, Sites
  <1> QED BY <1>9, <1>10

LEMMA EncodeHeadersPrompt ==
    ASSUME PInv, NEW q \in Request, NEW ok \in BOOLEAN, NEW e \in BOOLEAN,
           EncodeHeaders(q, ok, e)
    PROVE  Prompt(q)' /\ Race(q)'
  <1>1. /\ Types /\ f \in [Request -> FilterState] /\ f[q] \in FilterState
        /\ Prompt(q) /\ Race(q)
    BY DEF PInv, FInv, Types
  <1>2. /\ stage'[q] \in {"ended", "responding"} /\ stage[q] \notin Over
        /\ UNCHANGED <<chunk, call, timer>>
    BY <1>1 DEF EncodeHeaders, Enter, Types, Over
  <1>3. outcome' = outcome \/ Queue!Deliver(SaveKVCacheTask(q))
    BY DEF EncodeHeaders, SaveKVCache
  <1>4. \A s \in Sites : outcome'[Sent(q, s)] = outcome[Sent(q, s)]
    BY <1>1, <1>3, DispatchOne, SentDiffer, TasksDiffer
  <1>5. /\ f'[q].isStream = f[q].isStream /\ f'[q].firstToken = f[q].firstToken
        /\ f'[q].isIncreaseRecorded = f[q].isIncreaseRecorded
        /\ f'[q].isPromptLengthDeleted = f[q].isPromptLengthDeleted
        /\ f'[q].promptDecreaseTimer = f[q].promptDecreaseTimer
    BY <1>1 DEF EncodeHeaders, FilterState
  <1> QED BY <1>1, <1>2, <1>4, <1>5, PromptSame, RaceKept

LEMMA EncodeDataPrompt ==
    ASSUME PInv, NEW q \in Request, NEW data \in Chunks, EncodeData(q, data)
    PROVE  Prompt(q)' /\ Race(q)'
  <1>1. /\ Types /\ f \in [Request -> FilterState] /\ f[q] \in FilterState
        /\ Prompt(q) /\ Race(q) /\ Calls(q)
        /\ stage[q] = "responding" /\ chunk[q] = NoChunk
    BY DEF PInv, FInv, Types, Bracket, EncodeData
  <1>2. /\ f'[q].firstToken = TRUE /\ f'[q].isStream = f[q].isStream
        /\ f'[q].isIncreaseRecorded = f[q].isIncreaseRecorded
        /\ f'[q].isPromptLengthDeleted = f[q].isPromptLengthDeleted
        /\ f'[q].promptDecreaseTimer = f[q].promptDecreaseTimer
    BY <1>1 DEF EncodeData, FilterState
  <1>3. UNCHANGED <<stage, timer, outcome>>
    BY DEF EncodeData
  <1>4. CASE f[q].firstToken /\ UNCHANGED call
    <2>1. Prompt(q)'
      BY <1>1, <1>2, <1>3, <1>4
         DEF Prompt, Over, Taken, Undispatched, Sent, DeletePromptTask, Sites
    <2> QED BY <1>1, <1>2, <1>3, <1>4, <2>1, RaceKept
  <1>5. CASE ~f[q].firstToken /\ StartDelete(q, "token")
    <2>1. call[q]["token"] = "idle" /\ call[q]["end"] = "idle"
      BY <1>1, <1>5 DEF Prompt
    <2>2. /\ call'[q]["token"] = IF MayDelete(q) THEN CheckTimer(q) ELSE "done"
          /\ call'[q]["end"] = "idle" /\ call'[q]["timer"] = call[q]["timer"]
      BY <1>1, <1>5, <2>1, StartDeleteAt DEF Sites
    <2>3. MayDelete(q) <=> f[q].isIncreaseRecorded /\ ~f[q].isPromptLengthDeleted
      BY MayDeleteMeans DEF PInv
    <2>4. /\ call'[q]["token"] \in {"stopping", "sending", "done"}
          /\ call'[q]["token"] = "stopping" => MayDelete(q) /\ f[q].promptDecreaseTimer
          /\ call'[q]["token"] = "sending" => MayDelete(q)
          /\ call'[q]["token"] = "done" => ~MayDelete(q)
      BY <2>2 DEF CheckTimer
    <2>5. Prompt(q)'
      BY <1>1, <1>2, <1>3, <2>1, <2>2, <2>3, <2>4
         DEF Prompt, Busy, Over, Taken, Undispatched, Sent, DeletePromptTask, Sites
    <2>6. Race(q)'
      BY <1>1, <1>2, <1>3, <2>1, <2>2, <2>4 DEF Race, TimerPast, OtherPast, Sites
    <2> QED BY <2>5, <2>6
  <1> QED BY <1>4, <1>5 DEF EncodeData

LEMMA EndDataPrompt ==
    ASSUME PInv, NEW q \in Request, EndData(q)
    PROVE  Prompt(q)' /\ Race(q)'
  <1>1. /\ Types /\ Prompt(q) /\ Race(q) /\ chunk[q] # NoChunk /\ CallbackFree(q)
        /\ call[q]["end"] = "idle" /\ StartDelete(q, "end")
        /\ UNCHANGED <<f, stage, chunk, timer, outcome>>
    BY DEF PInv, FInv, EndData, envoyVars
  <1>2. /\ call'[q]["end"] = IF MayDelete(q) THEN CheckTimer(q) ELSE "done"
        /\ call'[q]["token"] = call[q]["token"] /\ call'[q]["timer"] = call[q]["timer"]
    BY <1>1, StartDeleteAt DEF Sites
  <1>3. MayDelete(q) <=> f[q].isIncreaseRecorded /\ ~f[q].isPromptLengthDeleted
    BY MayDeleteMeans DEF PInv
  <1>4. stage[q] = "responding" /\ call[q]["token"] \notin Busy
    BY <1>1 DEF PInv, FInv, Bracket, CallbackFree, Busy
  <1>5. /\ call'[q]["end"] \in {"stopping", "sending", "done"}
        /\ call'[q]["end"] = "stopping" => MayDelete(q) /\ f[q].promptDecreaseTimer
        /\ call'[q]["end"] = "sending" => MayDelete(q)
        /\ call'[q]["end"] = "done" => ~MayDelete(q)
    BY <1>2 DEF CheckTimer
  <1>6. Prompt(q)'
    BY <1>1, <1>2, <1>3, <1>4, <1>5
       DEF Prompt, Busy, Over, Taken, Undispatched, Sent, DeletePromptTask, Sites
  <1>7. Race(q)'
    BY <1>1, <1>2, <1>4, <1>5 DEF Race, TimerPast, OtherPast, Sites
  <1> QED BY <1>6, <1>7

LEMMA TimerPrompt ==
    ASSUME PInv, NEW q \in Request, TimerFires(q) \/ TimerDeletes(q)
    PROVE  Prompt(q)' /\ Race(q)'
  <1>1. Types /\ Prompt(q) /\ Race(q) /\ UNCHANGED <<f, stage, chunk, outcome>>
    BY DEF PInv, FInv, TimerFires, TimerDeletes, envoyVars
  <1>2. CASE TimerFires(q)
    <2>1. timer[q] = "pending" /\ timer'[q] = "fired" /\ call' = call
      BY <1>1, <1>2 DEF TimerFires, Types
    <2>2. Prompt(q)'
      BY <1>1, <2>1 DEF Prompt, Busy, Over, Taken, Undispatched, Sent, DeletePromptTask, Sites
    <2> QED BY <1>1, <2>1, <2>2, RaceKept
  <1>3. CASE TimerDeletes(q)
    <2>1. timer[q] = "fired" /\ call[q]["timer"] = "idle" /\ StartDelete(q, "timer")
          /\ timer' = timer
      BY <1>3 DEF TimerDeletes
    <2>2. /\ call'[q]["timer"] = IF MayDelete(q) THEN CheckTimer(q) ELSE "done"
          /\ call'[q]["token"] = call[q]["token"] /\ call'[q]["end"] = call[q]["end"]
      BY <1>1, <2>1, StartDeleteAt DEF Sites
    <2>3. MayDelete(q) <=> f[q].isIncreaseRecorded /\ ~f[q].isPromptLengthDeleted
      BY MayDeleteMeans DEF PInv
    <2>4. /\ call'[q]["timer"] \in {"stopping", "sending", "done"}
          /\ call'[q]["timer"] = "stopping" => MayDelete(q) /\ f[q].promptDecreaseTimer
          /\ call'[q]["timer"] = "sending" => MayDelete(q)
          /\ call'[q]["timer"] = "done" => ~MayDelete(q)
      BY <2>2 DEF CheckTimer
    <2>5. Prompt(q)'
      BY <1>1, <2>1, <2>2, <2>3, <2>4
         DEF Prompt, Busy, Over, Taken, Undispatched, Sent, DeletePromptTask, Sites
    <2>6. Race(q)'
      BY <1>1, <2>1, <2>2, <2>4 DEF Race, TimerPast, OtherPast, Sites
    <2> QED BY <2>5, <2>6
  <1> QED BY <1>2, <1>3

LEMMA ReturnPrompt ==
    ASSUME PInv, NEW q \in Request, BufferData(q) \/ ProcessResponseData(q)
    PROVE  Prompt(q)' /\ Race(q)'
  <1>1. /\ Types /\ f \in [Request -> FilterState] /\ f[q] \in FilterState
        /\ Prompt(q) /\ Race(q)
        /\ chunk[q] # NoChunk /\ CallbackFree(q) /\ Return(q)
        /\ UNCHANGED <<call, timer, outcome>>
    BY DEF PInv, FInv, Types, BufferData, ProcessResponseData
  <1>2. chunk'[q] = NoChunk /\ stage[q] = "responding" /\ f[q].firstToken
    BY <1>1 DEF Return, Types, PInv, FInv, Bracket, Prompt
  <1>3. stage'[q] \in {"responding", "ended", "panicked"}
    BY <1>1, <1>2 DEF BufferData, ProcessResponseData, Enter, AfterData, Types
  <1>4. /\ f'[q].isStream => f[q].isStream
        /\ f'[q].firstToken = f[q].firstToken
        /\ f'[q].isIncreaseRecorded = f[q].isIncreaseRecorded
        /\ f'[q].isPromptLengthDeleted = f[q].isPromptLengthDeleted
        /\ f'[q].promptDecreaseTimer = f[q].promptDecreaseTimer
    BY <1>1 DEF BufferData, ProcessResponseData, DropRest, FilterState
  <1>5. Prompt(q)'
    BY <1>1, <1>2, <1>3, <1>4
       DEF Prompt, Busy, Over, Taken, Undispatched, Sent, DeletePromptTask, Sites
  <1>6. Race(q)'
    BY <1>1, <1>2, <1>3, <1>4, RaceKept DEF Over
  <1> QED BY <1>5, <1>6

\* What StopTimer does to its request.
LEMMA StopTimerHere ==
    ASSUME Types, NEW q \in Request, StopTimer(q)
    PROVE  /\ ~f'[q].promptDecreaseTimer
           /\ f'[q].isStream = f[q].isStream /\ f'[q].firstToken = f[q].firstToken
           /\ f'[q].isIncreaseRecorded = f[q].isIncreaseRecorded
           /\ f'[q].isPromptLengthDeleted = f[q].isPromptLengthDeleted
           /\ timer'[q] = IF timer[q] = "pending" THEN "stopped" ELSE timer[q]
  BY DEF StopTimer, Types, FilterState

LEMMA StopTimerAtPrompt ==
    ASSUME PInv, NEW q \in Request, NEW site \in Sites, StopTimerAt(q, site)
    PROVE  Prompt(q)' /\ Race(q)'
  <1>1. /\ Types /\ Prompt(q) /\ Race(q) /\ Calls(q) /\ call[q][site] = "stopping"
        /\ outcome' = outcome /\ (chunk[q] # NoChunk => stage[q] = "responding")
    BY DEF PInv, FInv, Bracket, StopTimerAt
  <1>2. site # "timer" => /\ stage[q] = "responding" /\ f[q].firstToken
                          /\ \A t \in {"token", "end"} : t # site => call[q][t] \notin Busy
    BY <1>1 DEF Calls, CallbackFree, Prompt, Busy, Sites
  <1>3. CASE StopTimer(q) /\ call' = [call EXCEPT ![q][site] = "sending"] /\ UNCHANGED envoyVars
    <2>1. call'[q][site] = "sending" /\ \A t \in Sites : t # site => call'[q][t] = call[q][t]
      BY <1>1, <1>3, CallAt
    <2>2. UNCHANGED <<stage, chunk>>
      BY <1>3 DEF envoyVars
    <2>3. Prompt(q)'
      BY <1>1, <1>2, <1>3, <2>1, <2>2, StopTimerHere
         DEF Prompt, Busy, Over, Taken, Undispatched, Sent, DeletePromptTask, Sites
    <2>4. timer[q] = "fired" => timer'[q] = "fired"
      BY <1>1, <1>3, StopTimerHere
    <2>5. CASE site = "timer"
      <3>1. timer[q] = "fired"
        BY <1>1, <2>5 DEF Prompt
      <3>2. TimerPast(q)' /\ call'[q]["timer"] = "sending"
        BY <2>1, <2>4, <2>5, <3>1 DEF TimerPast, Sites
      <3>3. /\ call'[q]["token"] = call[q]["token"] /\ call'[q]["end"] = call[q]["end"]
            /\ stage'[q] = stage[q] /\ call[q]["timer"] = "stopping"
        BY <1>1, <2>1, <2>2, <2>5 DEF Sites
      <3>4. OtherPast(q)' <=> OtherPast(q)
        BY <3>3 DEF OtherPast
      <3>5. (\E s \in Sites : call'[q][s] = "panicked") \/ stage'[q] = "leaked" => OtherPast(q)
        BY <1>1, <3>2, <3>3 DEF Race, Sites
      <3> QED BY <2>3, <3>2, <3>4, <3>5 DEF Race
    <2>6. CASE site # "timer"
      <3>1. call'[q]["timer"] = call[q]["timer"] /\ OtherPast(q)'
        BY <2>1, <2>6 DEF OtherPast, Sites
      <3>2. TimerPast(q) => TimerPast(q)'
        BY <2>4, <3>1 DEF TimerPast
      <3>3. \A s \in Sites : /\ call'[q][s] = "panicked" => call[q][s] = "panicked"
                             /\ s # "timer" => call'[q][s] # "stopping"
        BY <1>2, <2>1, <2>6 DEF Busy, Sites
      <3>4. stage'[q] = "responding"
        BY <1>2, <2>2, <2>6
      <3>5. ASSUME NEW s \in Sites, call'[q][s] = "panicked"  PROVE TimerPast(q)
        <4>1. call[q][s] = "panicked"
          BY <3>3, <3>5
        <4> QED BY <1>1, <4>1 DEF Race
      <3>6. /\ call'[q]["token"] # "stopping" /\ call'[q]["end"] # "stopping"
            /\ stage'[q] \notin {"releasing", "leaked"}
        BY <3>3, <3>4 DEF Sites
      <3> QED BY <2>3, <3>1, <3>2, <3>5, <3>6 DEF Race
    <2> QED BY <2>3, <2>5, <2>6
  <1>4. CASE ~f[q].promptDecreaseTimer /\ Panic(q, site) /\ UNCHANGED <<f, timer>>
    <2>1. /\ call'[q][site] = "panicked" /\ \A t \in Sites : t # site => call'[q][t] = call[q][t]
      BY <1>1, <1>4, CallAt DEF Panic
    <2>2. CASE site = "timer"
      <3>1. UNCHANGED <<stage, chunk>> /\ timer[q] = "fired"
        BY <1>1, <1>4, <2>2 DEF Panic, Prompt, envoyVars
      <3>2. Prompt(q)'
        BY <1>1, <1>4, <2>1, <2>2, <3>1
           DEF Prompt, Busy, Over, Taken, Undispatched, Sent, DeletePromptTask, Sites
      <3>3. Race(q)'
        BY <1>1, <1>4, <2>1, <2>2, <3>1 DEF Race, TimerPast, OtherPast, Sites
      <3> QED BY <3>2, <3>3
    <2>3. CASE site # "timer"
      <3>1. stage'[q] = "panicked" /\ chunk'[q] = NoChunk
        BY <1>1, <1>4, <2>3 DEF Panic, Enter, Return, Types
      <3>2. Prompt(q)'
        BY <1>1, <1>2, <1>4, <2>1, <2>3, <3>1
           DEF Prompt, Busy, Over, Taken, Undispatched, Sent, DeletePromptTask, Sites
      <3>3. Race(q)'
        BY <1>1, <1>2, <1>4, <2>1, <2>3, <3>1 DEF Race, TimerPast, OtherPast, Over, Sites
      <3> QED BY <3>2, <3>3
    <2> QED BY <2>2, <2>3
  <1> QED BY <1>3, <1>4 DEF StopTimerAt

LEMMA DispatchDeletePrompt ==
    ASSUME PInv, NEW q \in Request, NEW site \in Sites, DispatchDelete(q, site)
    PROVE  Prompt(q)' /\ Race(q)'
  <1>1. /\ Types /\ f \in [Request -> FilterState] /\ f[q] \in FilterState
        /\ Prompt(q) /\ Race(q)
        /\ call[q][site] = "sending" /\ call' = [call EXCEPT ![q][site] = "done"]
        /\ UNCHANGED <<stage, chunk, timer>>
    BY DEF PInv, FInv, Types, DispatchDelete, envoyVars
  <1>2. call'[q][site] = "done" /\ \A s \in Sites : s # site => call'[q][s] = call[q][s]
    BY <1>1, CallAt
  <1>3. \A s \in Sites : s # site => outcome'[Sent(q, s)] = outcome[Sent(q, s)]
    <2>1. Queue!Deliver(Sent(q, site))
      BY DEF DispatchDelete, Queue!Deliver, Sent
    <2> QED BY <1>1, <2>1, DispatchOne, SentDiffer
  <1>4. /\ f'[q].isStream = f[q].isStream /\ f'[q].firstToken = f[q].firstToken
        /\ f'[q].isIncreaseRecorded = f[q].isIncreaseRecorded
        /\ f'[q].promptDecreaseTimer = f[q].promptDecreaseTimer
    BY <1>1 DEF DispatchDelete, FilterState
  <1>5. \/ /\ outcome'[Sent(q, site)] = "accepted"
           /\ f'[q].isPromptLengthDeleted = TRUE
        \/ /\ outcome'[Sent(q, site)] = "dropped"
           /\ f'[q].isPromptLengthDeleted = f[q].isPromptLengthDeleted
    <2>1. Sent(q, site) \in Task /\ outcome \in [Task -> Queue!Fate]
      BY <1>1, SentDiffer DEF Types
    <2>2. CASE /\ Queue!Accept(Sent(q, site))
               /\ f' = [f EXCEPT ![q].isPromptLengthDeleted = TRUE]
      BY <1>1, <2>1, <2>2 DEF Queue!Accept, FilterState
    <2>3. CASE Queue!Drop(Sent(q, site)) /\ UNCHANGED f
      BY <2>1, <2>3 DEF Queue!Drop
    <2> QED BY <2>2, <2>3 DEF DispatchDelete, Sent
  <1>6. outcome[Sent(q, site)] = "new" /\ f[q].isIncreaseRecorded
    BY <1>1 DEF Prompt, Busy, Undispatched
  <1>7. Prompt(q)'
    BY <1>1, <1>2, <1>3, <1>4, <1>5, <1>6
       DEF Prompt, Busy, Over, Taken, Undispatched, Sent, DeletePromptTask, Sites
  <1>8. Race(q)'
    BY <1>1, <1>2, <1>4 DEF Race, TimerPast, OtherPast, Sites
  <1> QED BY <1>7, <1>8

LEMMA OnDestroyPrompt ==
    ASSUME PInv, NEW q \in Request, OnDestroy(q) \/ StopAndRelease(q)
    PROVE  Prompt(q)' /\ Race(q)'
  <1>1. /\ Types /\ Prompt(q) /\ Race(q) /\ Bracket(q) /\ chunk[q] = NoChunk
        /\ UNCHANGED <<chunk, call>> /\ CallbackFree(q)
    BY DEF PInv, FInv, OnDestroy, StopAndRelease, Prompt, Bracket, Calls
  <1>2. \A s \in Sites : outcome'[Sent(q, s)] = outcome[Sent(q, s)]
    <2>1. outcome' = outcome \/ Queue!Deliver(DeleteRequestTask(q))
      BY DEF OnDestroy, StopAndRelease, Release
    <2> QED BY <1>1, <2>1, DispatchOne, SentDiffer, TasksDiffer
  <1>3. CASE OnDestroy(q)
    <2>1. /\ UNCHANGED <<f, timer>> /\ stage[q] \notin Over
          /\ \/ stage'[q] = "destroyed" /\ (~MustRelease(q) \/ ~f[q].promptDecreaseTimer)
             \/ stage'[q] = "releasing" /\ f[q].promptDecreaseTimer
      BY <1>1, <1>3 DEF OnDestroy, Release, Enter, Types, Over
    <2>2. stage'[q] = "destroyed" => timer[q] # "pending"
      BY <1>1, <2>1 DEF MustRelease, Bracket, Prompt
    <2>3. Prompt(q)'
      BY <1>1, <1>2, <2>1, <2>2
         DEF Prompt, Busy, Over, Taken, Undispatched, Sent, DeletePromptTask, Sites
    <2>4. Race(q)'
      BY <1>1, <2>1 DEF Race, TimerPast, OtherPast, CallbackFree, Over, Sites
    <2> QED BY <2>3, <2>4
  <1>4. CASE StopAndRelease(q)
    <2>1. /\ stage[q] = "releasing"
          /\ \/ StopTimer(q) /\ stage'[q] = "destroyed"
             \/ ~f[q].promptDecreaseTimer /\ stage'[q] = "leaked" /\ UNCHANGED <<f, timer>>
      BY <1>1, <1>4 DEF StopAndRelease, Release, Enter, Types
    <2>2. CASE StopTimer(q) /\ stage'[q] = "destroyed"
      <3>1. Prompt(q)'
        BY <1>1, <1>2, <2>1, <2>2, StopTimerHere
           DEF Prompt, Busy, Over, Taken, Undispatched, Sent, DeletePromptTask, Sites
      <3>2. timer[q] = "fired" => timer'[q] = "fired"
        BY <1>1, <2>2, StopTimerHere
      <3>3. Race(q)'
        BY <1>1, <2>1, <2>2, <3>2 DEF Race, TimerPast, OtherPast, CallbackFree, Over, Sites
      <3> QED BY <3>1, <3>3
    <2>3. CASE ~f[q].promptDecreaseTimer /\ stage'[q] = "leaked" /\ UNCHANGED <<f, timer>>
      <3>1. TimerPast(q)
        BY <1>1, <2>1, <2>3 DEF Race
      <3>2. Prompt(q)'
        BY <1>1, <1>2, <2>1, <2>3, <3>1
           DEF Prompt, TimerPast, Busy, Over, Taken, Undispatched, Sent, DeletePromptTask, Sites
      <3>3. Race(q)'
        BY <1>1, <2>1, <2>3, <3>1 DEF Race, TimerPast, OtherPast, CallbackFree, Over, Sites
      <3> QED BY <3>2, <3>3
    <2> QED BY <2>1, <2>2, <2>3
  <1> QED BY <1>3, <1>4

LEMMA HandleTaskPrompt ==
    ASSUME PInv, HandleTask, NEW r \in Request
    PROVE  Prompt(r)' /\ Race(r)'
  <1>1. PICK t \in Task, result \in Queue!Results : Queue!Handle(t, result)
    BY DEF HandleTask
  <1>2. /\ UNCHANGED <<f, stage, chunk, call, timer>>
        /\ outcome \in [Task -> Queue!Fate] /\ outcome[t] = "accepted"
        /\ outcome' = [outcome EXCEPT ![t] = result] /\ result \in {"ok", "failed"}
    BY <1>1 DEF PInv, FInv, Types, Queue!Handle, Queue!Results, HandleTask, envoyVars
  <1>3. ASSUME NEW u \in Task
        PROVE  /\ Taken(u)' <=> Taken(u)
               /\ Undispatched(u)' <=> Undispatched(u)
               /\ outcome'[u] = "dropped" <=> outcome[u] = "dropped"
    BY <1>2 DEF Taken, Undispatched
  <1> QED BY <1>2, <1>3, SentDiffer, PromptKept, RaceKept DEF PInv

-----------------------------------------------------------------------------
LEMMA NextPInv == PInv /\ [Next]_vars => PInv'
  <1> SUFFICES ASSUME PInv, [Next]_vars, NEW r \in Request  PROVE Prompt(r)' /\ Race(r)'
    BY NextFInv DEF PInv
  <1>1. ASSUME NEW q \in Request, Step(q)  PROVE Prompt(r)' /\ Race(r)'
    <2>1. CASE r # q
      BY <1>1, <2>1, OthersAlone, PromptSame, RaceKept DEF PInv
    <2>2. ASSUME Step(r)  PROVE Prompt(r)' /\ Race(r)'
      <3>1. ASSUME NEW e \in BOOLEAN, DecodeHeaders(r, e)  PROVE Prompt(r)' /\ Race(r)'
        BY <3>1, StagePrompt
      <3>2. ASSUME NEW hosts \in HostLists, NEW kind \in Kinds,
                   ProcessRequest(r, hosts, kind)
            PROVE  Prompt(r)' /\ Race(r)'
        BY <3>2, ProcessRequestPrompt
      <3>3. ASSUME NEW ok \in BOOLEAN, NEW e \in BOOLEAN, EncodeHeaders(r, ok, e)
            PROVE  Prompt(r)' /\ Race(r)'
        BY <3>3, EncodeHeadersPrompt
      <3>4. ASSUME NEW data \in Chunks, EncodeData(r, data)  PROVE Prompt(r)' /\ Race(r)'
        BY <3>4, EncodeDataPrompt
      <3>5. ASSUME NEW site \in Sites, DispatchDelete(r, site)  PROVE Prompt(r)' /\ Race(r)'
        BY <3>5, DispatchDeletePrompt
      <3>6. ASSUME NEW site \in Sites, StopTimerAt(r, site)  PROVE Prompt(r)' /\ Race(r)'
        BY <3>6, StopTimerAtPrompt
      <3> QED BY <2>2, <3>1, <3>2, <3>3, <3>4, <3>5, <3>6, StagePrompt, EndDataPrompt,
                 TimerPrompt, ReturnPrompt, OnDestroyPrompt DEF Step, Continue
    <2> QED BY <1>1, <2>1, <2>2
  <1>2. CASE HandleTask
    BY <1>2, HandleTaskPrompt
  <1>3. CASE UNCHANGED vars
    <2>1. UNCHANGED <<f, stage, chunk, call, timer, outcome>>
      BY <1>3 DEF vars, envoyVars
    <2> QED BY <2>1, PromptSame, RaceKept DEF PInv
  <1> QED BY <1>1, <1>2, <1>3 DEF Next

LEMMA PInvAlways == Spec => []PInv
  BY InitPInv, NextPInv, PTL DEF Spec

\* A prompt deletion is sent for recorded requests only, and a call that has
\* ended found or left the prompt deleted unless the queue dropped its task
\* (deletePromptLength).
THEOREM PromptRemembered == Spec => []PromptNotForgotten
  <1>1. PInv => PromptNotForgotten
    <2> SUFFICES ASSUME PInv, NEW r \in Request, NEW site \in Sites
                 PROVE  /\ ~Undispatched(DeletePromptTask(r, site)) =>
                              f[r].isIncreaseRecorded
                        /\ call[r][site] = "done" /\ f[r].isIncreaseRecorded =>
                              \/ \E s \in Sites : Taken(DeletePromptTask(r, s))
                              \/ outcome[DeletePromptTask(r, site)] = "dropped"
      BY DEF PromptNotForgotten
    <2> QED BY DEF PInv, Prompt, Sent
  <1> QED BY <1>1, PInvAlways, PTL

\* The callbacks of a request delete its prompt once between them, and the
\* timer never deletes that of a streaming request (deletePromptLength).
THEOREM PromptDeletedOnce == Spec => []PromptDeletedOncePerThread
  <1>1. PInv => PromptDeletedOncePerThread
    <2> SUFFICES ASSUME PInv, NEW r \in Request
                 PROVE  /\ ~(/\ Taken(DeletePromptTask(r, "token"))
                             /\ Taken(DeletePromptTask(r, "end")))
                        /\ f[r].isStream => Undispatched(DeletePromptTask(r, "timer"))
      BY DEF PromptDeletedOncePerThread
    <2> QED BY DEF PInv, Prompt, Sent, Sites, Taken, Undispatched
  <1> QED BY <1>1, PInvAlways, PTL

\* promptDecreaseTimer is found nil after its nil check only by the loser of a
\* race between the timer goroutine and a callback or OnDestroy (deletePromptLength,
\* decreaseRequest).
THEOREM NilTimerIsRace == Spec => []NilTimerNeedsRace
  <1>1. PInv => NilTimerNeedsRace
    BY DEF PInv, Race, TimerPast, OtherPast, NilTimerNeedsRace
  <1> QED BY <1>1, PInvAlways, PTL

\* What a request may still do after its OnDestroy: its timer stays as it is, and
\* a task is sent by the goroutine of a timer that has fired at most (OnDestroy,
\* decreaseRequest, the callback of time.AfterFunc).
LEMMA QuietStep ==
    ASSUME PInv, [Next]_vars, NEW r \in Request, stage[r] \in Over
    PROVE  /\ timer'[r] = timer[r]
           /\ \A t \in Task : t.req = r /\ Undispatched(t) /\ ~Undispatched(t)' =>
                  t = DeletePromptTask(r, "timer") /\ timer[r] = "fired"
  <1>1. /\ FInv /\ Types /\ Prompt(r) /\ chunk[r] = NoChunk /\ CallbackFree(r)
        /\ timer[r] # "pending"
    BY DEF PInv, FInv, Bracket, Calls, Prompt, Over
  <1> DEFINE Still == timer'[r] = timer[r] /\ outcome' = outcome
             Goal == /\ timer'[r] = timer[r]
                     /\ \A t \in Task : t.req = r /\ Undispatched(t) /\ ~Undispatched(t)' =>
                            t = DeletePromptTask(r, "timer") /\ timer[r] = "fired"
  <1>2. ASSUME Still  PROVE Goal
    BY <1>2 DEF Undispatched
  <1>3. ASSUME NEW q \in Request, Step(q), q # r  PROVE Goal
    BY <1>1, <1>3, OthersAlone DEF Undispatched
  <1>4. ASSUME Step(r)  PROVE Goal
    <2>1. ASSUME NEW site \in Sites, StopTimerAt(r, site)  PROVE Still
      <3>1. outcome' = outcome /\ (UNCHANGED <<f, timer>> \/ StopTimer(r))
        BY <2>1 DEF StopTimerAt
      <3> QED BY <1>1, <3>1, StopTimerHere
    <2>2. ASSUME NEW site \in Sites, DispatchDelete(r, site)  PROVE Goal
      <3>1. site = "timer" /\ timer[r] = "fired"
        BY <1>1, <2>2 DEF DispatchDelete, CallbackFree, Prompt, Sites
      <3>2. timer' = timer /\ Queue!Deliver(DeletePromptTask(r, site))
        BY <2>2 DEF DispatchDelete, Queue!Deliver
      <3>3. \A t \in Task : t # DeletePromptTask(r, "timer") => outcome'[t] = outcome[t]
        BY <1>1, <3>1, <3>2, DispatchOne, TasksDiffer
      <3> QED BY <3>1, <3>2, <3>3 DEF Undispatched
    <2>3. ASSUME TimerDeletes(r)  PROVE Still
      BY <2>3 DEF TimerDeletes
    <2>4. \/ \E site \in Sites : StopTimerAt(r, site) \/ DispatchDelete(r, site)
          \/ TimerDeletes(r)
      BY <1>1, <1>4 DEF Step, Continue, Over, DecodeHeaders, DecodeTrailers, BadRequest,
            ProcessRequest, EncodeHeaders, EncodeData, EncodeTrailers, TimerFires, BufferData,
            EndData, ProcessResponseData, OnDestroy, StopAndRelease
    <2> QED BY <1>2, <2>1, <2>2, <2>3, <2>4
  <1>5. ASSUME HandleTask  PROVE Goal
    <2>1. PICK t \in Task, result \in Queue!Results : Queue!Handle(t, result)
      BY <1>5 DEF HandleTask
    <2>2. /\ timer' = timer /\ outcome \in [Task -> Queue!Fate]
          /\ outcome[t] = "accepted" /\ outcome' = [outcome EXCEPT ![t] = result]
      BY <1>1, <1>5, <2>1 DEF HandleTask, Queue!Handle, Types
    <2> QED BY <2>2 DEF Undispatched
  <1>6. ASSUME UNCHANGED vars  PROVE Goal
    BY <1>2, <1>6 DEF vars
  <1> QED BY <1>3, <1>4, <1>5, <1>6 DEF Next

\* A destroyed request is quiet but for a timer goroutine that is already running.
THEOREM DestroyIsQuiet == Spec => QuietAfterDestroy
  <1>1. PInv /\ [Next]_vars =>
            [\A r \in Request : stage[r] \in Over =>
                /\ timer'[r] = timer[r]
                /\ \A t \in Task : t.req = r /\ Undispatched(t) /\ ~Undispatched(t)' =>
                       t = DeletePromptTask(r, "timer") /\ timer[r] = "fired"]_vars
    BY QuietStep
  <1> QED BY <1>1, PInvAlways, PTL DEF Spec, QuietAfterDestroy

-----------------------------------------------------------------------------
(***************************************************************************)
(* LoadAccounting: the filters with the real task queue take the steps of  *)
(* the filters with its promise, for any requests, workers and size of the *)
(* buffer, and with a single worker every entry that the service keeps of  *)
(* a request has a reason that can be named.                               *)
(***************************************************************************)

\* The history of accepted tasks plays no part in what is used of the queue.
AQP == INSTANCE AsyncQueueProofs WITH accepted <- <<>>

LEMMA QueueConstants == AQP!QueueAssumption
<1>1. AQP!IsFiniteSet(Worker)
  BY FilterAssumption DEF IsFiniteSet, AQP!IsFiniteSet
<1> QED  BY <1>1, FilterAssumption, AccountingAssumption DEF AQP!QueueAssumption

\* What is used of the queue's invariant, and of its steps.
LEMMA QueueFacts ==
  ASSUME AQP!IInv
  PROVE  /\ taskChan \in Seq(Task)
         /\ worker \in [Worker -> Task \cup {Ready, Parked, Exited}]
         /\ outcome \in [Task -> {"new", "accepted", "dropped", "ok", "failed", "panicked"}]
         /\ \A t \in Task : outcome[t] = "accepted" <=>
                (\E w \in Worker : worker[w] = t) \/ (\E i \in 1..Len(taskChan) : taskChan[i] = t)
         /\ \A w \in Worker : worker[w] = Parked => taskChan = <<>>
BY DEF AQP!IInv, AQP!TypeOK, AQP!Statuses, AQP!HeldOnce, AQP!Holds, AQP!Buffered,
       AQP!NoLostWakeup

LEMMA NoTask ==
  ASSUME NEW t \in Task
  PROVE  t # Ready /\ t # Parked /\ t # Exited
BY AccountingAssumption

LEMMA SameQueue ==
  /\ \A t \in Task : AQ!Dispatch(t) <=> AQP!Dispatch(t)
  /\ \A w \in Worker : /\ AQ!Receive(w) <=> AQP!Receive(w)
                       /\ AQ!Park(w) <=> AQP!Park(w)
                       /\ \A result : AQ!Finish(w, result) <=> AQP!Finish(w, result)
BY DEF AQ!Dispatch, AQ!HandOver, AQ!Enqueue, AQ!DropTask, AQ!DispatchClosed, AQ!TakenIn,
       AQ!Waiting, AQ!Full, AQ!Receive, AQ!Park, AQ!Finish,
       AQP!Dispatch, AQP!HandOver, AQP!Enqueue, AQP!DropTask, AQP!DispatchClosed, AQP!TakenIn,
       AQP!Waiting, AQP!Full, AQP!Receive, AQP!Park, AQP!Finish

\* The steps of the composition as steps of the queue.
LEMMA QueuePart ==
  ASSUME [LNext]_allVars
  PROVE  [AQP!Next]_(AQP!vars)
<1>1. ASSUME NEW r \in Request, FilterStep(r)  PROVE AQP!Next \/ UNCHANGED AQP!vars
  BY <1>1, SameQueue DEF FilterStep, queueVars, AQP!Next, AQP!vars
<1>2. ASSUME NEW w \in Worker, TakeTask(w)  PROVE AQP!Next
  BY <1>2, SameQueue DEF TakeTask, AQP!Next, AQP!WorkerStep
<1>3. ASSUME NEW w \in Worker, FinishTask(w)  PROVE AQP!Next
  <2>1. \E result \in {"ok", "failed"} : AQP!Finish(w, result)
    BY <1>3, SameQueue DEF FinishTask
  <2> QED  BY <2>1 DEF AQP!Next, AQP!WorkerStep
<1>4. ASSUME NEW t \in Task, Serve(t)  PROVE UNCHANGED AQP!vars
  BY <1>4 DEF Serve, queueVars, vars, AQP!vars
<1>5. CASE UNCHANGED allVars
  BY <1>5 DEF allVars, queueVars, vars, AQP!vars
<1> QED  BY <1>1, <1>2, <1>3, <1>4, <1>5 DEF LNext

\* The steps of the composition as steps of the filters and the queue's promise.
LEMMA FilterPart ==
  ASSUME AQP!IInv, [LNext]_allVars
  PROVE  [Next]_vars
<1>1. ASSUME NEW r \in Request, FilterStep(r), ~Crashed  PROVE Next
  BY <1>1 DEF FilterStep, Next
<1>2. ASSUME NEW w \in Worker, TakeTask(w)  PROVE UNCHANGED vars
  BY <1>2 DEF TakeTask, AQ!Receive, AQ!Park, filterVars, vars
<1>3. ASSUME NEW w \in Worker, FinishTask(w), ~Crashed  PROVE Next
  <2>1. PICK result \in Queue!Results : AQ!Finish(w, result)
    BY <1>3 DEF FinishTask, Queue!Results
  <2>2. worker[w] \in Task /\ outcome[worker[w]] = "accepted"
    BY <2>1, QueueFacts DEF AQ!Finish
  <2>3. Queue!Handle(worker[w], result)
    BY <2>1, <2>2 DEF AQ!Finish, Queue!Handle
  <2>4. UNCHANGED <<f, envoyVars, call, timer>>
    BY <1>3 DEF FinishTask, filterVars, envoyVars
  <2> QED  BY <1>3, <2>2, <2>3, <2>4 DEF Next, HandleTask
<1>4. ASSUME NEW t \in Task, Serve(t)  PROVE UNCHANGED vars
  BY <1>4 DEF Serve
<1>5. CASE UNCHANGED allVars
  BY <1>5 DEF allVars
<1> QED  BY <1>1, <1>2, <1>3, <1>4, <1>5 DEF LNext

-----------------------------------------------------------------------------
\* No task of the filters panics: nothing closes their queue.
QInv == AQP!IInv /\ PInv /\ \A t \in Task : outcome[t] # "panicked"

LEMMA InitQInv == LInit => QInv
<1> SUFFICES ASSUME LInit  PROVE QInv
  OBVIOUS
<1>1. AQP!Init
  BY DEF LInit, Init, AQP!Init
<1>2. AQP!IInv
  BY <1>1, QueueConstants, AQP!InitIInv
<1> QED  BY <1>2, InitPInv DEF QInv, LInit, Init

LEMMA NextQInv == QInv /\ [LNext]_allVars => QInv'
<1> SUFFICES ASSUME QInv, [LNext]_allVars  PROVE QInv'
  OBVIOUS
<1>1. AQP!IInv'
  BY QueueConstants, QueuePart, AQP!NextIInv DEF QInv
<1>2. [Next]_vars /\ FInv
  BY FilterPart DEF QInv, PInv
<1>3. PInv'
  BY <1>2, NextPInv DEF QInv
<1>4. \A t \in Task : outcome'[t] # "panicked"
  <2>1. ASSUME NEW u \in Task, Queue!Deliver(u)  PROVE \A t \in Task : outcome'[t] # "panicked"
    BY <1>2, <2>1, DispatchOne DEF FInv, QInv
  <2>2. ASSUME NEW u \in Task, NEW result \in Queue!Results, Queue!Handle(u, result)
        PROVE  \A t \in Task : outcome'[t] # "panicked"
    BY <1>2, <2>2 DEF Queue!Handle, Queue!Results, FInv, Types, QInv
  <2>3. CASE outcome' = outcome
    BY <2>3 DEF QInv
  <2> QED  BY <1>2, <2>1, <2>2, <2>3, StepDispatches, TasksDiffer
<1> QED  BY <1>1, <1>3, <1>4 DEF QInv

\* For any requests, workers and size of the buffer: the filters with the real
\* queue do what the filters with its promise do, so that whatever is proved of
\* Filter holds here (Dispatch, worker and processTask under filter.go).
THEOREM FiltersOnRealQueue == LSpec => Init /\ [][Next]_vars
<1>1. LInit => Init
  BY DEF LInit
<1>2. QInv /\ [LNext]_allVars => [Next]_vars
  BY FilterPart DEF QInv
<1> QED  BY <1>1, <1>2, InitQInv, NextQInv, PTL DEF LSpec

-----------------------------------------------------------------------------
\* What happens to the tasks in a step.
Late(r) == {DeleteRequestTask(r)} \cup {DeletePromptTask(r, s) : s \in Sites}
Begun(t) == outcome[t] \in {"ok", "failed"} \/ \E w \in Worker : worker[w] = t

LEMMA LateTasks ==
  ASSUME NEW r \in Request, NEW t \in Late(r)
  PROVE  t \in Task /\ AddRequestTask(r) \in Task /\ t # AddRequestTask(r)
BY TasksDiffer DEF Late

\* The updates of a request come after its add.
LEMMA LateAfterAdd ==
  ASSUME QInv, NEW r \in Request, NEW t \in Late(r), outcome[AddRequestTask(r)] = "new"
  PROVE  outcome[t] = "new"
<1>1. Bracket(r) /\ Prompt(r)
  BY DEF QInv, PInv, FInv
<1>2. ~f[r].isIncreaseRecorded
  BY <1>1 DEF Bracket, Taken
<1> QED  BY <1>1, <1>2 DEF Bracket, Prompt, Undispatched, Late, Sent

\* A task that is begun stays so, and one that is done keeps its outcome.
LEMMA BegunStays ==
  ASSUME QInv, [LNext]_allVars, NEW t \in Task
  PROVE  /\ Begun(t) => Begun(t)'
         /\ outcome[t] \in {"ok", "failed"} => outcome'[t] = outcome[t]
         /\ outcome'[t] = "ok" => outcome[t] = "ok" \/ t \in served
<1>0. AQP!IInv
  BY DEF QInv
<1>1. ASSUME NEW u \in Task, AQ!Dispatch(u)
      PROVE  /\ Begun(t) => Begun(t)'
             /\ outcome[t] \in {"ok", "failed"} => outcome'[t] = outcome[t]
             /\ outcome'[t] = "ok" => outcome[t] = "ok"
  BY <1>0, <1>1, QueueFacts, NoTask
     DEF AQ!Dispatch, AQ!HandOver, AQ!Enqueue, AQ!DropTask, AQ!DispatchClosed, AQ!TakenIn,
         AQ!Waiting, Begun
<1>2. ASSUME NEW r \in Request, FilterStep(r)
      PROVE  /\ Begun(t) => Begun(t)'
             /\ outcome[t] \in {"ok", "failed"} => outcome'[t] = outcome[t]
             /\ outcome'[t] = "ok" => outcome[t] = "ok"
  BY <1>1, <1>2 DEF FilterStep, queueVars, Begun
<1>3. ASSUME NEW w \in Worker, TakeTask(w)
      PROVE  (Begun(t) => Begun(t)') /\ outcome' = outcome
  BY <1>0, <1>3, QueueFacts, NoTask DEF TakeTask, AQ!Receive, AQ!Park, Begun
<1>4. ASSUME NEW w \in Worker, FinishTask(w)
      PROVE  /\ Begun(t) => Begun(t)'
             /\ outcome[t] \in {"ok", "failed"} => outcome'[t] = outcome[t]
             /\ outcome'[t] = "ok" => outcome[t] = "ok" \/ t \in served
  <2>1. PICK result \in {"ok", "failed"} :
          AQ!Finish(w, result) /\ (result = "ok" => worker[w] \in served)
    BY <1>4 DEF FinishTask
  <2>2. /\ worker[w] \in Task /\ outcome[worker[w]] = "accepted"
        /\ outcome' = [outcome EXCEPT ![worker[w]] = result]
        /\ worker' = [worker EXCEPT ![w] = Ready]
    BY <1>0, <2>1, QueueFacts DEF AQ!Finish
  <2> QED  BY <1>0, <2>1, <2>2, QueueFacts DEF Begun
<1>5. CASE UNCHANGED <<worker, outcome>>
  BY <1>5 DEF Begun
<1>6. ASSUME NEW u \in Task, Serve(u)  PROVE UNCHANGED <<worker, outcome>>
  BY <1>6 DEF Serve, vars, queueVars
<1>7. UNCHANGED allVars => UNCHANGED <<worker, outcome>>
  BY DEF allVars, vars, queueVars
<1> QED  BY <1>2, <1>3, <1>4, <1>5, <1>6, <1>7 DEF LNext

-----------------------------------------------------------------------------
\* With one worker, no update of a request is begun before its add is done.
SingleWorker == \A v, w \in Worker : v = w

Behind(r, t) ==
    outcome[AddRequestTask(r)] = "accepted" =>
        /\ ~Begun(t)
        /\ \A j \in 1..Len(taskChan) : taskChan[j] = t =>
               \/ \E w \in Worker : worker[w] = AddRequestTask(r)
               \/ \E i \in 1..Len(taskChan) : i < j /\ taskChan[i] = AddRequestTask(r)

InOrder == \A r \in Request : \A t \in Late(r) : Behind(r, t)

\* The service acts on begun tasks, on those that succeeded for certain.
ServedBegun ==
    /\ served \subseteq Task /\ entry \in [Request -> EntryStates]
    /\ \A t \in served : Begun(t)
    /\ \A t \in Task : outcome[t] = "ok" => t \in served

\* What it has of a request, unless the add failed and may come late.
Books(r) ==
    outcome[AddRequestTask(r)] # "failed" =>
        /\ AddRequestTask(r) \notin served => entry[r] = "absent"
        /\ DeleteRequestTask(r) \in served => entry[r] = "absent"
        /\ \A s \in Sites : DeletePromptTask(r, s) \in served => entry[r] # "prefill"

AInv == SingleWorker /\ QInv /\ InOrder /\ ServedBegun /\ \A r \in Request : Books(r)

LEMMA InitAInv == SingleWorker /\ LInit => AInv
<1> SUFFICES ASSUME SingleWorker, LInit  PROVE AInv
  OBVIOUS
<1>1. \A t \in Task : outcome[t] = "new"
  BY DEF LInit, Init
<1>2. InOrder
  BY <1>1, LateTasks DEF InOrder, Behind
<1>3. ServedBegun /\ \A r \in Request : Books(r)
  BY <1>1 DEF LInit, ServedBegun, Books, EntryStates
<1> QED  BY <1>2, <1>3, InitQInv DEF AInv

LEMMA DispatchInOrder ==
  ASSUME AInv, NEW u \in Task, AQ!Dispatch(u), NEW r \in Request, NEW t \in Late(r)
  PROVE  Behind(r, t)'
<1> DEFINE a == AddRequestTask(r)
<1>0. /\ AQP!IInv /\ SingleWorker /\ QInv /\ Behind(r, t)
      /\ a \in Task /\ t \in Task /\ a # t
  BY LateTasks DEF AInv, QInv, InOrder
<1>1. outcome[a] = "new" => outcome[t] = "new"
  BY <1>0, LateAfterAdd
<1>2. Behind(r, t)' <=>
        (outcome'[a] = "accepted" =>
            /\ ~Begun(t)'
            /\ \A j \in 1..Len(taskChan') : taskChan'[j] = t =>
                   \/ \E w \in Worker : worker'[w] = a
                   \/ \E i \in 1..Len(taskChan') : i < j /\ taskChan'[i] = a)
  BY DEF Behind, AddRequestTask
<1>3. outcome[a] = "accepted" =>
            /\ ~Begun(t)
            /\ \A j \in 1..Len(taskChan) : taskChan[j] = t =>
                   \/ \E w \in Worker : worker[w] = a
                   \/ \E i \in 1..Len(taskChan) : i < j /\ taskChan[i] = a
  BY <1>0 DEF Behind
<1> HIDE DEF a
<1>4. CASE AQ!HandOver(u)
  <2>1. PICK w \in Worker : worker[w] = Parked /\ worker' = [worker EXCEPT ![w] = u]
    BY <1>4 DEF AQ!HandOver, AQ!Waiting
  <2>2. /\ taskChan = <<>> /\ taskChan' = taskChan
        /\ outcome[u] = "new" /\ outcome' = [outcome EXCEPT ![u] = "accepted"]
    BY <1>0, <1>4, <2>1, QueueFacts DEF AQ!HandOver, AQ!TakenIn
  <2>3. outcome[a] # "accepted"
    BY <1>0, <2>1, <2>2, QueueFacts, NoTask DEF SingleWorker
  <2>4. CASE u = a
    BY <1>0, <1>1, <1>2, <2>1, <2>2, <2>4, QueueFacts DEF Begun, SingleWorker
  <2>5. CASE u # a
    BY <1>0, <1>2, <2>2, <2>3, <2>5, QueueFacts
  <2> QED  BY <2>4, <2>5
<1>5. CASE AQ!Enqueue(u)
  <2>1. /\ worker' = worker /\ outcome[u] = "new"
        /\ outcome' = [outcome EXCEPT ![u] = "accepted"]
        /\ taskChan' = Append(taskChan, u)
    BY <1>5 DEF AQ!Enqueue, AQ!TakenIn
  <2>2. /\ Len(taskChan) \in Nat /\ Len(taskChan') = Len(taskChan) + 1
        /\ taskChan'[Len(taskChan) + 1] = u
        /\ \A i \in 1..Len(taskChan) : taskChan'[i] = taskChan[i]
    BY <1>0, <2>1, QueueFacts
  <2>3. \A i \in 1..Len(taskChan') : i \in 1..Len(taskChan) \/ i = Len(taskChan) + 1
    BY <2>2
  <2>4. CASE u = a
    BY <1>0, <1>1, <1>2, <2>1, <2>2, <2>3, <2>4, QueueFacts DEF Begun
  <2>5. CASE u # a
    <3>1. SUFFICES ASSUME outcome[a] = "accepted"
                   PROVE  /\ ~Begun(t)'
                          /\ \A j \in 1..Len(taskChan') : taskChan'[j] = t =>
                                 \/ \E w \in Worker : worker'[w] = a
                                 \/ \E i \in 1..Len(taskChan') : i < j /\ taskChan'[i] = a
      BY <1>0, <1>2, <2>1, <2>5, QueueFacts
    <3>2. ~Begun(t)'
      BY <1>0, <1>3, <2>1, <3>1, QueueFacts DEF Begun
    <3>3. ASSUME NEW j \in 1..Len(taskChan'), taskChan'[j] = t,
                 ~\E w \in Worker : worker'[w] = a
          PROVE  \E i \in 1..Len(taskChan') : i < j /\ taskChan'[i] = a
      <4>1. PICK i \in 1..Len(taskChan) : i < j /\ taskChan[i] = a
        <5>1. CASE j \in 1..Len(taskChan)
          BY <1>3, <2>1, <2>2, <3>1, <3>3, <5>1
        <5>2. CASE j = Len(taskChan) + 1
          <6>1. PICK i \in 1..Len(taskChan) : taskChan[i] = a
            BY <1>0, <2>1, <3>1, <3>3, QueueFacts
          <6> QED  BY <2>2, <5>2, <6>1
        <5> QED  BY <2>3, <5>1, <5>2
      <4> QED  BY <2>2, <4>1
    <3> QED  BY <3>2, <3>3
  <2> QED  BY <2>4, <2>5
<1>6. CASE AQ!DropTask(u) \/ AQ!DispatchClosed(u)
  <2>1. /\ worker' = worker /\ taskChan' = taskChan /\ outcome[u] = "new"
        /\ \E fate \in {"dropped", "panicked"} : outcome' = [outcome EXCEPT ![u] = fate]
    BY <1>6 DEF AQ!DropTask, AQ!DispatchClosed
  <2>2. outcome'[a] = "accepted" => outcome[a] = "accepted"
    BY <1>0, <2>1, QueueFacts
  <2>3. Begun(t)' => Begun(t)
    BY <1>0, <2>1, QueueFacts DEF Begun
  <2> QED  BY <1>2, <1>3, <2>1, <2>2, <2>3
<1> QED  BY <1>4, <1>5, <1>6 DEF AQ!Dispatch

LEMMA WorkerInOrder ==
  ASSUME AInv, NEW w \in Worker, TakeTask(w) \/ FinishTask(w),
         NEW r \in Request, NEW t \in Late(r)
  PROVE  Behind(r, t)'
<1> DEFINE a == AddRequestTask(r)
<1>0. /\ AQP!IInv /\ SingleWorker /\ QInv /\ Behind(r, t)
      /\ a \in Task /\ t \in Task /\ a # t
  BY LateTasks DEF AInv, QInv, InOrder
<1>2. Behind(r, t)' <=>
        (outcome'[a] = "accepted" =>
            /\ ~Begun(t)'
            /\ \A j \in 1..Len(taskChan') : taskChan'[j] = t =>
                   \/ \E v \in Worker : worker'[v] = a
                   \/ \E i \in 1..Len(taskChan') : i < j /\ taskChan'[i] = a)
  BY DEF Behind, AddRequestTask
<1>3. outcome[a] = "accepted" =>
            /\ ~Begun(t)
            /\ \A j \in 1..Len(taskChan) : taskChan[j] = t =>
                   \/ \E v \in Worker : worker[v] = a
                   \/ \E i \in 1..Len(taskChan) : i < j /\ taskChan[i] = a
  BY <1>0 DEF Behind
<1> HIDE DEF a
<1>4. CASE AQ!Receive(w)
  <2>1. /\ worker[w] = Ready /\ taskChan # <<>> /\ outcome' = outcome
        /\ worker' = [worker EXCEPT ![w] = Head(taskChan)] /\ taskChan' = Tail(taskChan)
    BY <1>4 DEF AQ!Receive
  <2>2. /\ Len(taskChan) \in Nat \ {0} /\ Head(taskChan) = taskChan[1]
        /\ Len(taskChan') = Len(taskChan) - 1
        /\ \A i \in 1..Len(taskChan') : taskChan'[i] = taskChan[i + 1]
        /\ worker'[w] = taskChan[1]
    BY <1>0, <2>1, QueueFacts
  <2>3. SUFFICES ASSUME outcome[a] = "accepted"
                 PROVE  /\ ~Begun(t)'
                        /\ \A j \in 1..Len(taskChan') : taskChan'[j] = t =>
                               \/ \E v \in Worker : worker'[v] = a
                               \/ \E i \in 1..Len(taskChan') : i < j /\ taskChan'[i] = a
    BY <1>2, <2>1
  <2>4. \A v \in Worker : worker[v] # a
    BY <1>0, <2>1, NoTask DEF SingleWorker
  <2>5. taskChan[1] # t
    BY <1>3, <2>2, <2>3, <2>4
  <2>6. ~Begun(t)'
    BY <1>0, <1>3, <2>1, <2>2, <2>3, <2>5, QueueFacts DEF Begun
  <2>7. ASSUME NEW j \in 1..Len(taskChan'), taskChan'[j] = t, worker'[w] # a
        PROVE  \E i \in 1..Len(taskChan') : i < j /\ taskChan'[i] = a
    <3>1. j + 1 \in 1..Len(taskChan) /\ taskChan[j + 1] = t
      BY <2>2, <2>7
    <3>2. PICK i \in 1..Len(taskChan) : i < j + 1 /\ taskChan[i] = a
      BY <1>3, <2>3, <2>4, <3>1
    <3>3. i # 1
      BY <2>2, <2>7, <3>2
    <3>4. i - 1 \in 1..Len(taskChan') /\ i - 1 < j /\ taskChan'[i - 1] = taskChan[i - 1 + 1]
          /\ i - 1 + 1 = i
      BY <2>2, <3>2, <3>3
    <3> QED  BY <3>2, <3>4
  <2> QED  BY <2>6, <2>7
<1>5. CASE AQ!Park(w)
  BY <1>0, <1>2, <1>3, <1>5, QueueFacts, NoTask DEF AQ!Park, Begun
<1>6. ASSUME NEW result \in {"ok", "failed"}, AQ!Finish(w, result)  PROVE Behind(r, t)'
  <2>1. /\ worker[w] \in Task /\ outcome' = [outcome EXCEPT ![worker[w]] = result]
        /\ worker' = [worker EXCEPT ![w] = Ready] /\ taskChan' = taskChan
    BY <1>6 DEF AQ!Finish
  <2>2. CASE worker[w] = a
    BY <1>0, <1>2, <2>1, <2>2, QueueFacts
  <2>3. CASE worker[w] # a
    <3>1. outcome'[a] = outcome[a] /\ \A v \in Worker : worker[v] # a
      BY <1>0, <2>1, <2>3, QueueFacts DEF SingleWorker
    <3>2. ~Begun(t) => ~Begun(t)'
      BY <1>0, <2>1, QueueFacts, NoTask DEF Begun
    <3> QED  BY <1>2, <1>3, <2>1, <3>1, <3>2
  <2> QED  BY <2>2, <2>3
<1> QED  BY <1>4, <1>5, <1>6 DEF TakeTask, FinishTask

LEMMA NextInOrder ==
  ASSUME AInv, [LNext]_allVars
  PROVE  InOrder'
<1> SUFFICES ASSUME NEW r \in Request, NEW t \in Late(r)  PROVE Behind(r, t)'
  BY DEF InOrder, Late, DeleteRequestTask, DeletePromptTask
<1>1. CASE UNCHANGED <<taskChan, worker, outcome>>
  BY <1>1 DEF AInv, InOrder, Behind, Begun, AddRequestTask
<1>2. ASSUME NEW q \in Request, FilterStep(q)  PROVE Behind(r, t)'
  <2>1. UNCHANGED <<taskChan, worker, outcome>> \/ \E u \in Task : AQ!Dispatch(u)
    BY <1>2 DEF FilterStep, queueVars
  <2> QED  BY <1>1, <2>1, DispatchInOrder
<1>3. ASSUME NEW w \in Worker, TakeTask(w) \/ FinishTask(w)  PROVE Behind(r, t)'
  BY <1>3, WorkerInOrder
<1>4. ASSUME NEW u \in Task, Serve(u)  PROVE UNCHANGED <<taskChan, worker, outcome>>
  BY <1>4 DEF Serve, vars, queueVars
<1>5. UNCHANGED allVars => UNCHANGED <<taskChan, worker, outcome>>
  BY DEF allVars, vars, queueVars
<1> QED  BY <1>1, <1>2, <1>3, <1>4, <1>5 DEF LNext

-----------------------------------------------------------------------------
\* A step of the service, and what the others leave of it.
LEMMA ServiceSteps ==
  ASSUME [LNext]_allVars
  PROVE  \/ UNCHANGED <<served, entry>>
         \/ \E t \in Task : /\ t \notin served
                            /\ (\E w \in Worker : worker[w] = t) \/ outcome[t] = "failed"
                            /\ served' = served \cup {t}
                            /\ entry' = [entry EXCEPT ![t.req] = After(t, @)]
                            /\ UNCHANGED outcome
BY DEF LNext, FilterStep, TakeTask, FinishTask, Serve, serviceVars, allVars, vars

LEMMA NextServedBegun ==
  ASSUME AInv, [LNext]_allVars
  PROVE  ServedBegun'
<1>0. QInv /\ ServedBegun
  BY DEF AInv
<1>1. \A t \in Task : outcome'[t] = "ok" => t \in served
  BY <1>0, BegunStays DEF ServedBegun
<1>2. \A t \in Task : Begun(t) => Begun(t)'
  BY <1>0, BegunStays
<1>3. CASE UNCHANGED <<served, entry>>
  <2>1. \A t \in served' : Begun(t)'
    BY <1>0, <1>2, <1>3 DEF ServedBegun
  <2> QED  BY <1>0, <1>1, <1>3, <2>1 DEF ServedBegun
<1>4. ASSUME NEW u \in Task,
             (\E w \in Worker : worker[w] = u) \/ outcome[u] = "failed",
             served' = served \cup {u},
             entry' = [entry EXCEPT ![u.req] = After(u, @)]
      PROVE  ServedBegun'
  <2>1. Begun(u)
    BY <1>4 DEF Begun
  <2>2. \A t \in served' : Begun(t)'
    BY <1>0, <1>2, <1>4, <2>1 DEF ServedBegun
  <2>3. entry' \in [Request -> EntryStates]
    <3>1. \A old \in EntryStates : After(u, old) \in EntryStates
      BY DEF After, EntryStates
    <3>2. u.req \in Request
      BY DEF Task
    <3> QED  BY <1>0, <1>4, <3>1, <3>2 DEF ServedBegun
  <2> QED  BY <1>0, <1>1, <1>4, <2>2, <2>3 DEF ServedBegun
<1> QED  BY <1>3, <1>4, ServiceSteps

LEMMA NextBooks ==
  ASSUME AInv, [LNext]_allVars, NEW r \in Request
  PROVE  Books(r)'
<1> DEFINE a == AddRequestTask(r)
           d == DeleteRequestTask(r)
           p(s) == DeletePromptTask(r, s)
<1>0. /\ QInv /\ InOrder /\ ServedBegun /\ Books(r) /\ AQP!IInv
      /\ a \in Task /\ d \in Late(r) /\ \A s \in Sites : p(s) \in Late(r)
  BY TasksDiffer DEF AInv, QInv, Late
<1>1. SUFFICES ASSUME outcome'[a] # "failed"
               PROVE  /\ a \notin served' => entry'[r] = "absent"
                      /\ d \in served' => entry'[r] = "absent"
                      /\ \A s \in Sites : p(s) \in served' => entry'[r] # "prefill"
  BY DEF Books, AddRequestTask, DeleteRequestTask, DeletePromptTask
<1>2. outcome[a] # "failed"
  BY <1>0, <1>1, BegunStays
<1>3. /\ a \notin served => entry[r] = "absent"
      /\ d \in served => entry[r] = "absent"
      /\ \A s \in Sites : p(s) \in served => entry[r] # "prefill"
  BY <1>0, <1>2 DEF Books
<1>4. CASE UNCHANGED <<served, entry>>
  BY <1>3, <1>4
<1>5. ASSUME NEW u \in Task, u \notin served,
             (\E w \in Worker : worker[w] = u) \/ outcome[u] = "failed",
             served' = served \cup {u},
             entry' = [entry EXCEPT ![u.req] = After(u, @)]
      PROVE  /\ a \notin served' => entry'[r] = "absent"
             /\ d \in served' => entry'[r] = "absent"
             /\ \A s \in Sites : p(s) \in served' => entry'[r] # "prefill"
  <2>1. /\ entry \in [Request -> EntryStates] /\ u.req \in Request
        /\ a.req = r /\ d.req = r /\ \A s \in Sites : p(s).req = r
    BY <1>0 DEF ServedBegun, Task, AddRequestTask, DeleteRequestTask, DeletePromptTask
  <2>2. CASE u.req # r
    <3>1. entry'[r] = entry[r] /\ u # a /\ u # d /\ \A s \in Sites : u # p(s)
      BY <1>5, <2>1, <2>2
    <3> QED  BY <1>3, <1>5, <3>1
  <2>3. CASE u.req = r
    <3>0. entry'[r] = After(u, entry[r]) /\ entry[r] \in EntryStates
      BY <1>5, <2>1, <2>3
    <3>1. CASE u = a
      <4>1. outcome[a] = "accepted"
        BY <1>0, <1>2, <1>5, <3>1, QueueFacts
      <4>2. \A t \in Late(r) : t \notin served /\ t # a
        BY <1>0, <4>1, LateTasks DEF InOrder, Behind, ServedBegun
      <4> QED  BY <1>0, <1>5, <3>1, <4>2
    <3>2. CASE u = d
      <4>1. u.op = "DeleteRequest" /\ u.op # "AddRequest" /\ u.op \notin Sites
        BY <3>2 DEF DeleteRequestTask, Sites
      <4>2. After(u, entry[r]) = "absent"
        BY <4>1 DEF After
      <4>3. entry'[r] = "absent"
        BY <3>0, <4>2
      <4> QED  BY <4>3
    <3>3. ASSUME NEW s \in Sites, u = p(s)
          PROVE  /\ a \notin served' => entry'[r] = "absent"
                 /\ d \in served' => entry'[r] = "absent"
                 /\ \A z \in Sites : p(z) \in served' => entry'[r] # "prefill"
      <4>1. /\ u.op \in Sites /\ u.op # "AddRequest" /\ u.op # "DeleteRequest"
        BY <3>3 DEF DeletePromptTask, Sites
      <4>2. After(u, entry[r]) = IF entry[r] = "prefill" THEN "decode" ELSE entry[r]
        BY <4>1 DEF After
      <4>3. u # a /\ u # d
        BY <3>3, TasksDiffer
      <4> QED  BY <1>3, <1>5, <3>0, <4>2, <4>3
    <3>4. CASE u.op = "SaveKVCache"
      <4>1. After(u, entry[r]) = entry[r]
        BY <3>4 DEF After, Sites
      <4>2. u # a /\ u # d /\ \A s \in Sites : u # p(s)
        BY <3>4 DEF AddRequestTask, DeleteRequestTask, DeletePromptTask, Sites
      <4> QED  BY <1>3, <1>5, <3>0, <4>1, <4>2
    <3>5. u = a \/ u = d \/ (\E s \in Sites : u = p(s)) \/ u.op = "SaveKVCache"
      BY <2>3 DEF Task, AddRequestTask, DeleteRequestTask, DeletePromptTask
    <3> QED  BY <3>1, <3>2, <3>3, <3>4, <3>5
  <2> QED  BY <2>2, <2>3
<1> QED  BY <1>4, <1>5, ServiceSteps

LEMMA NextAInv == AInv /\ [LNext]_allVars => AInv'
<1> SUFFICES ASSUME AInv, [LNext]_allVars  PROVE AInv'
  OBVIOUS
<1>1. SingleWorker'
  BY DEF AInv, SingleWorker
<1> QED  BY <1>1, NextQInv, NextInOrder, NextServedBegun, NextBooks DEF AInv

LEMMA AInvAlways == SingleWorker /\ LSpec => []AInv
BY InitAInv, NextAInv, PTL DEF LSpec

\* With one worker, for any number of requests and any size of the buffer: the
\* service counts a request only while the filter works on it, or its delete is
\* under way, was dropped or failed, a panic came before it, or its add failed.
THEOREM OneWorkerNoGhost == SingleWorker /\ LSpec => []NoGhostLoad
<1>1. AInv => NoGhostLoad
  <2> SUFFICES ASSUME AInv, NEW r \in Request, entry[r] # "absent",
                      outcome[AddRequestTask(r)] # "failed",
                      outcome[DeleteRequestTask(r)] \notin {"accepted", "dropped", "failed"}
               PROVE  f[r].isIncreaseRecorded /\ (stage[r] \notin Over \/ Abandoned(r))
    BY DEF NoGhostLoad
  <2>1. /\ Books(r) /\ ServedBegun /\ AQP!IInv /\ Bracket(r)
        /\ AddRequestTask(r) \in Task /\ DeleteRequestTask(r) \in Task
        /\ outcome[DeleteRequestTask(r)] # "panicked"
    BY TasksDiffer DEF AInv, QInv, PInv, FInv
  <2>2. AddRequestTask(r) \in served /\ DeleteRequestTask(r) \notin served
    BY <2>1 DEF Books
  <2>3. outcome[AddRequestTask(r)] \in {"accepted", "ok"}
    BY <2>1, <2>2, QueueFacts DEF ServedBegun, Begun
  <2>4. outcome[DeleteRequestTask(r)] = "new"
    BY <2>1, <2>2, QueueFacts DEF ServedBegun
  <2> QED  BY <2>1, <2>3, <2>4 DEF Bracket, Taken, Undispatched, Over, Abandoned
<1> QED  BY <1>1, AInvAlways, PTL

\* And it no longer counts the prompt of a request once an add and a deletion
\* of the prompt have both been answered.
THEOREM OneWorkerReleasesPrompt == SingleWorker /\ LSpec => []PromptReleased
<1>1. AInv => PromptReleased
  <2> SUFFICES ASSUME AInv, NEW r \in Request, NEW site \in Sites,
                      outcome[AddRequestTask(r)] = "ok",
                      outcome[DeletePromptTask(r, site)] = "ok"
               PROVE  entry[r] # "prefill"
    BY DEF PromptReleased, Answered
  <2>1. Books(r) /\ ServedBegun /\ DeletePromptTask(r, site) \in Task
    BY TasksDiffer DEF AInv
  <2> QED  BY <2>1 DEF Books, ServedBegun
<1> QED  BY <1>1, AInvAlways, PTL
=============================================================================
