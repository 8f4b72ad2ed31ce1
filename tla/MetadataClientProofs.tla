------------------------ MODULE MetadataClientProofs ------------------------
(***************************************************************************)
(* Proofs about ClientSingleton, for any number of callers, whatever they  *)
(* want: types and locks (TypeOK), one client (OneClient), and the same    *)
(* answer for everybody (SameAnswer). Then about MetadataClient, for any   *)
(* number of connections and workers: what is proved of ClientSingleton    *)
(* and of ServiceCall holds of their composition, and with it              *)
(* LimitsOfOneClient.                                                      *)
(***************************************************************************)
EXTENDS MetadataClient, FiniteSetTheorems, TLAPS

\* The places of a caller that holds or waits for the lock as a writer.
Writing == {"announced", "locked", "creating"}

\* The environment variables are read once and before anybody goes on.
OnceOK ==
    /\ enabledOnce = "done" => enabled = hostSet
    /\ cacheOnce = "done" => cacheEnabled = hostSet
    /\ \A c \in Caller : at[c] \in {"isEnabled", "getClient", "reading", "found", "missed"}
                                      \cup Writing =>
           enabledOnce = "done"
    /\ \A c \in Caller : at[c] \in {"getClient", "reading", "found", "missed"} \cup Writing =>
           hostSet /\ job[c] # "cache"
    /\ \A c \in Caller : at[c] = "returned" /\ job[c] = "cache" => cacheOnce = "done"

\* The one client is the global one, or about to become it; it does not change.
ClientOK ==
    /\ \A d \in clients : globalClient = d \/ at[d] = "creating"
    /\ globalClient # NoClient => clients = {globalClient}
    /\ \A c \in Caller : at[c] = "creating" => clients = {c} /\ globalClient = NoClient
    /\ \A c \in Caller : at[c] = "found" => globalClient # NoClient

GivenOK ==
    \A c \in Caller : at[c] = "returned" /\ job[c] # "cache" =>
        \/ ~hostSet /\ got[c] = Noop
        \/ hostSet /\ got[c] = globalClient /\ globalClient # NoClient

IInv == TypeOK /\ OnceOK /\ ClientOK /\ GivenOK

-----------------------------------------------------------------------------
LEMMA InitInv == Init => IInv
  BY SingletonAssumption DEF Init, IInv, TypeOK, OnceOK, ClientOK, GivenOK, Writing, Places, OnceStates, Jobs

LEMMA EnterCacheOnceInv ==
  ASSUME NEW c \in Caller, IInv, EnterCacheOnce(c)
  PROVE  IInv'
<1> USE SingletonAssumption DEF IInv, EnterCacheOnce, given, onceVars, lockVars, clientVars, Goto
<1>1. TypeOK'
  BY DEF TypeOK, OnceOK, Writing, Places, OnceStates
<1>2. OnceOK'
  BY DEF TypeOK, OnceOK, Writing, Places, OnceStates
<1>3. ClientOK'
  BY DEF TypeOK, OnceOK, ClientOK, Writing, Places
<1>4. GivenOK'
  BY DEF TypeOK, OnceOK, ClientOK, GivenOK, Writing, Places
<1> QED  BY <1>1, <1>2, <1>3, <1>4

LEMMA EnterEnabledOnceInv ==
  ASSUME NEW c \in Caller, IInv, EnterEnabledOnce(c)
  PROVE  IInv'
<1> USE SingletonAssumption DEF IInv, EnterEnabledOnce, CallsIsEnabled, given, onceVars, lockVars, clientVars, Goto
<1>1. TypeOK'
  BY DEF TypeOK, OnceOK, Writing, Places, OnceStates
<1>2. OnceOK'
  BY DEF TypeOK, OnceOK, Writing, Places, OnceStates
<1>3. ClientOK'
  BY DEF TypeOK, OnceOK, ClientOK, Writing, Places
<1>4. GivenOK'
  BY DEF TypeOK, OnceOK, ClientOK, GivenOK, Writing, Places
<1> QED  BY <1>1, <1>2, <1>3, <1>4

LEMMA ReadEnvironmentInv ==
  ASSUME NEW c \in Caller, IInv, ReadEnvironment(c)
  PROVE  IInv'
<1> USE SingletonAssumption DEF IInv, ReadEnvironment, given, onceVars, lockVars, clientVars, Goto
<1>1. TypeOK'
  BY DEF TypeOK, OnceOK, Writing, Places, OnceStates
<1>2. OnceOK'
  BY DEF TypeOK, OnceOK, Writing, Places, OnceStates
<1>3. ClientOK'
  BY DEF TypeOK, OnceOK, ClientOK, Writing, Places
<1>4. GivenOK'
  BY DEF TypeOK, OnceOK, ClientOK, GivenOK, Writing, Places
<1> QED  BY <1>1, <1>2, <1>3, <1>4

LEMMA SetCacheEnabledInv ==
  ASSUME NEW c \in Caller, IInv, SetCacheEnabled(c)
  PROVE  IInv'
<1> USE SingletonAssumption DEF IInv, SetCacheEnabled, given, onceVars, lockVars, clientVars, Goto
<1>1. TypeOK'
  BY DEF TypeOK, OnceOK, Writing, Places, OnceStates
<1>2. OnceOK'
  BY DEF TypeOK, OnceOK, Writing, Places, OnceStates
<1>3. ClientOK'
  BY DEF TypeOK, OnceOK, ClientOK, Writing, Places
<1>4. GivenOK'
  BY DEF TypeOK, OnceOK, ClientOK, GivenOK, Writing, Places
<1> QED  BY <1>1, <1>2, <1>3, <1>4

LEMMA ClientOrNoopInv ==
  ASSUME NEW c \in Caller, IInv, ClientOrNoop(c)
  PROVE  IInv'
<1> USE SingletonAssumption DEF IInv, ClientOrNoop, given, onceVars, lockVars, clientVars, Goto
<1>1. TypeOK'
  BY DEF TypeOK, OnceOK, Writing, Places, OnceStates
<1>2. OnceOK'
  BY DEF TypeOK, OnceOK, Writing, Places, OnceStates
<1>3. ClientOK'
  BY DEF TypeOK, OnceOK, ClientOK, Writing, Places
<1>4. GivenOK'
  BY DEF TypeOK, OnceOK, ClientOK, GivenOK, Writing, Places
<1> QED  BY <1>1, <1>2, <1>3, <1>4

LEMMA RLockInv ==
  ASSUME NEW c \in Caller, IInv, RLock(c)
  PROVE  IInv'
<1> USE SingletonAssumption DEF IInv, RLock, given, onceVars, lockVars, clientVars, Goto
<1>1. TypeOK'
  BY DEF TypeOK, OnceOK, Writing, Places, OnceStates
<1>2. OnceOK'
  BY DEF TypeOK, OnceOK, Writing, Places, OnceStates
<1>3. ClientOK'
  BY DEF TypeOK, OnceOK, ClientOK, Writing, Places
<1>4. GivenOK'
  BY DEF TypeOK, OnceOK, ClientOK, GivenOK, Writing, Places
<1> QED  BY <1>1, <1>2, <1>3, <1>4

LEMMA CheckAndRUnlockInv ==
  ASSUME NEW c \in Caller, IInv, CheckAndRUnlock(c)
  PROVE  IInv'
<1> USE SingletonAssumption DEF IInv, CheckAndRUnlock, given, onceVars, lockVars, clientVars, Goto
<1>1. TypeOK'
  BY DEF TypeOK, OnceOK, Writing, Places, OnceStates
<1>2. OnceOK'
  BY DEF TypeOK, OnceOK, Writing, Places, OnceStates
<1>3. ClientOK'
  BY DEF TypeOK, OnceOK, ClientOK, Writing, Places
<1>4. GivenOK'
  BY DEF TypeOK, OnceOK, ClientOK, GivenOK, Writing, Places
<1> QED  BY <1>1, <1>2, <1>3, <1>4

LEMMA ReturnFoundInv ==
  ASSUME NEW c \in Caller, IInv, ReturnFound(c)
  PROVE  IInv'
<1> USE SingletonAssumption DEF IInv, ReturnFound, given, onceVars, lockVars, clientVars, Goto
<1>1. TypeOK'
  BY DEF TypeOK, OnceOK, Writing, Places, OnceStates
<1>2. OnceOK'
  BY DEF TypeOK, OnceOK, Writing, Places, OnceStates
<1>3. ClientOK'
  BY DEF TypeOK, OnceOK, ClientOK, Writing, Places
<1>4. GivenOK'
  BY DEF TypeOK, OnceOK, ClientOK, GivenOK, Writing, Places
<1> QED  BY <1>1, <1>2, <1>3, <1>4

LEMMA AnnounceLockInv ==
  ASSUME NEW c \in Caller, IInv, AnnounceLock(c)
  PROVE  IInv'
<1> USE SingletonAssumption DEF IInv, AnnounceLock, given, onceVars, lockVars, clientVars, Goto
<1>1. TypeOK'
  BY DEF TypeOK, OnceOK, Writing, Places, OnceStates
<1>2. OnceOK'
  BY DEF TypeOK, OnceOK, Writing, Places, OnceStates
<1>3. ClientOK'
  BY DEF TypeOK, OnceOK, ClientOK, Writing, Places
<1>4. GivenOK'
  BY DEF TypeOK, OnceOK, ClientOK, GivenOK, Writing, Places
<1> QED  BY <1>1, <1>2, <1>3, <1>4

LEMMA LockInv ==
  ASSUME NEW c \in Caller, IInv, Lock(c)
  PROVE  IInv'
<1> USE SingletonAssumption DEF IInv, Lock, given, onceVars, lockVars, clientVars, Goto
<1>1. TypeOK'
  BY DEF TypeOK, OnceOK, Writing, Places, OnceStates
<1>2. OnceOK'
  BY DEF TypeOK, OnceOK, Writing, Places, OnceStates
<1>3. ClientOK'
  BY DEF TypeOK, OnceOK, ClientOK, Writing, Places
<1>4. GivenOK'
  BY DEF TypeOK, OnceOK, ClientOK, GivenOK, Writing, Places
<1> QED  BY <1>1, <1>2, <1>3, <1>4

LEMMA RecheckInv ==
  ASSUME NEW c \in Caller, IInv, Recheck(c)
  PROVE  IInv'
<1> USE SingletonAssumption DEF IInv, Recheck, given, onceVars, lockVars, clientVars, Goto
<1>1. TypeOK'
  BY DEF TypeOK, OnceOK, Writing, Places, OnceStates
<1>2. OnceOK'
  BY DEF TypeOK, OnceOK, Writing, Places, OnceStates
<1>3. ClientOK'
  BY DEF TypeOK, OnceOK, ClientOK, Writing, Places
<1>4. GivenOK'
  BY DEF TypeOK, OnceOK, ClientOK, GivenOK, Writing, Places
<1> QED  BY <1>1, <1>2, <1>3, <1>4

LEMMA PublishInv ==
  ASSUME NEW c \in Caller, IInv, Publish(c)
  PROVE  IInv'
<1> USE SingletonAssumption DEF IInv, Publish, given, onceVars, lockVars, clientVars, Goto
<1>1. TypeOK'
  BY DEF TypeOK, OnceOK, Writing, Places, OnceStates
<1>2. OnceOK'
  BY DEF TypeOK, OnceOK, Writing, Places, OnceStates
<1>3. ClientOK'
  BY DEF TypeOK, OnceOK, ClientOK, Writing, Places
<1>4. GivenOK'
  BY DEF TypeOK, OnceOK, ClientOK, GivenOK, Writing, Places
<1> QED  BY <1>1, <1>2, <1>3, <1>4

LEMMA StepInv ==
  ASSUME IInv, [Next]_singletonVars
  PROVE  IInv'
<1>1. ASSUME NEW c \in Caller, OnceStep(c)  PROVE IInv'
  BY <1>1, EnterCacheOnceInv, EnterEnabledOnceInv, ReadEnvironmentInv, SetCacheEnabledInv, ClientOrNoopInv DEF OnceStep
<1>2. ASSUME NEW c \in Caller, LockStep(c)  PROVE IInv'
  BY <1>2, RLockInv, CheckAndRUnlockInv, ReturnFoundInv, AnnounceLockInv, LockInv, RecheckInv, PublishInv DEF LockStep
<1>3. CASE UNCHANGED singletonVars
  BY <1>3 DEF IInv, TypeOK, OnceOK, ClientOK, GivenOK,
              singletonVars, given, onceVars, lockVars, clientVars
<1> QED  BY <1>1, <1>2, <1>3 DEF Next, CallerStep

LEMMA SingletonInv == Spec => []IInv
  BY InitInv, StepInv, PTL DEF Spec

\* The state keeps its types, and the lock is held by exactly those who stand
\* between its Lock and Unlock.
THEOREM SingletonTypes == Spec => []TypeOK
<1>1. IInv => TypeOK
  BY DEF IInv
<1> QED  BY <1>1, SingletonInv, PTL

\* NewClient is called once, however many goroutines call GetClient first.
LEMMA InvOneClient == IInv => OneClient
  BY SingletonAssumption DEF IInv, TypeOK, ClientOK, OneClient

THEOREM OnlyOneClient == Spec => []OneClient
  BY InvOneClient, SingletonInv, PTL

\* All callers get the answer that the environment asks for, at every time.
LEMMA InvSameAnswer == IInv => SameAnswer
  BY DEF IInv, TypeOK, OnceOK, GivenOK, SameAnswer

THEOREM EverybodySameAnswer == Spec => []SameAnswer
  BY InvSameAnswer, SingletonInv, PTL

-----------------------------------------------------------------------------
CP == INSTANCE ServiceCallProofs WITH
          Call <- Caller, Client <- Caller, NoPool <- NoClient

\* The operators of FiniteSets under the names of both instances.
LEMMA SameCardinality ==
  \A S : /\ IsFiniteSet(S) <=> CP!IsFiniteSet(S)
         /\ Calls!IsFiniteSet(S) <=> CP!IsFiniteSet(S)
         /\ Cardinality(S) = CP!Cardinality(S)
         /\ Calls!Cardinality(S) = CP!Cardinality(S)
<1>1. \A S : /\ IsFiniteSet(S) <=> CP!IsFiniteSet(S)
             /\ Calls!IsFiniteSet(S) <=> CP!IsFiniteSet(S)
  BY DEF IsFiniteSet, Calls!IsFiniteSet, CP!IsFiniteSet
<1>2. \A S : Cardinality(S) = CP!Cardinality(S)
  BY Zenon DEF Cardinality, CP!Cardinality
<1>3. \A S : Calls!Cardinality(S) = CP!Cardinality(S)
  BY Zenon DEF Calls!Cardinality, CP!Cardinality
<1> QED  BY <1>1, <1>2, <1>3

LEMMA CallConstants == CP!CallAssumption
  BY ClientAssumption, SameCardinality DEF CP!CallAssumption, Calls!CallAssumption

\* A client that a caller uses was made, the update of a caller waits for a
\* client or is sent, never both, and only a client that was made has connections.
UseOK ==
    /\ \A c \in Caller : phase[c] # "new" =>
           at[c] = "returned" /\ got[c] \in clients /\ pool[c] = got[c]
    /\ \A c \in queued : c \in Caller /\ at[c] = "returned" /\ job[c] = "update"
                          /\ got[c] \in clients /\ phase[c] = "new" /\ reply[c] # "none"
    /\ \A c \in Caller : Uses(c, "update") => phase[c] = "new"
    /\ reply \in [Caller -> {"none", "ok", "failed"}]
    /\ \A k \in Caller : idle[k] > 0 => k \in clients
    /\ \A k \in Caller : Cardinality(Sending(k)) =< WorkerCount

-----------------------------------------------------------------------------
\* The steps of the composition as steps of the two parts.
LEMMA SingletonPart ==
  ASSUME [MNext]_mvars  PROVE [Next]_singletonVars
  BY DEF MNext, mvars, UserStep, Query, QueryReplies, Update, TakeUpdate, NoopReplies

LEMMA SameCalls ==
  /\ \A c, k \in Caller : Calls!Begin(c, k) <=> CP!Begin(c, k)
  /\ Calls!CallStep <=> CP!CallStep
<1>1. \A c, k \in Caller : Calls!Begin(c, k) <=> CP!Begin(c, k)
  BY DEF Calls!Begin, Calls!Become, CP!Begin, CP!Become
<1>2. ASSUME NEW c \in Caller  PROVE Calls!Proceed(c) <=> CP!Proceed(c)
  <2>1. /\ Calls!Send(c) <=> CP!Send(c)
        /\ Calls!Connections(pool[c]) = CP!Connections(pool[c])
    BY SameCardinality
       DEF Calls!Send, CP!Send, Calls!Become, CP!Become,
           Calls!Connections, CP!Connections, Calls!BusyOf, CP!BusyOf
  <2>2. /\ Calls!Reuse(c) <=> CP!Reuse(c)
        /\ Calls!Dial(c) <=> CP!Dial(c)
    BY <2>1 DEF Calls!Reuse, CP!Reuse, Calls!Dial, CP!Dial
  <2>3. /\ Calls!Act(c) <=> CP!Act(c)
        /\ Calls!Answer(c) <=> CP!Answer(c)
        /\ Calls!ReadAnswer(c) <=> CP!ReadAnswer(c)
        /\ Calls!GiveUp(c) <=> CP!GiveUp(c)
        /\ Calls!CloseBroken(c) <=> CP!CloseBroken(c)
    BY DEF Calls!Act, CP!Act, Calls!Answer, CP!Answer, Calls!ReadAnswer, CP!ReadAnswer,
           Calls!GiveUp, CP!GiveUp, Calls!CloseBroken, CP!CloseBroken,
           Calls!Become, CP!Become
  <2> QED  BY <2>2, <2>3 DEF Calls!Proceed, CP!Proceed
<1>3. \A k \in Caller : Calls!CloseIdle(k) <=> CP!CloseIdle(k)
  BY DEF Calls!CloseIdle, CP!CloseIdle
<1> QED  BY <1>1, <1>2, <1>3 DEF Calls!CallStep, CP!CallStep

LEMMA CallPart ==
  ASSUME TypeOK, UseOK, [MNext]_mvars
  PROVE  [CP!Next]_(CP!callVars)
<1>1. ASSUME NEW c \in Caller, got[c] \in clients, Calls!Begin(c, got[c])
      PROVE  CP!Next
  BY <1>1, SameCalls DEF CP!Next, TypeOK
<1>2. ASSUME Calls!CallStep  PROVE CP!Next
  BY <1>2, SameCalls DEF CP!Next
<1>3. ASSUME UNCHANGED callVars  PROVE UNCHANGED CP!callVars
  BY <1>3 DEF callVars, CP!callVars
<1>4. ASSUME NEW c \in Caller, UserStep(c)  PROVE CP!Next \/ UNCHANGED callVars
  BY <1>1, <1>4 DEF UserStep, Query, QueryReplies, Update, NoopReplies
<1>5. ASSUME NEW c \in Caller, TakeUpdate(c)  PROVE CP!Next
  BY <1>1, <1>5 DEF TakeUpdate, UseOK
<1> QED
  BY <1>2, <1>3, <1>4, <1>5 DEF MNext, useVars, mvars

-----------------------------------------------------------------------------
\* What the steps of the two parts leave as it is.
LEMMA SingletonKeeps ==
  ASSUME TypeOK, [Next]_singletonVars
  PROVE  /\ job' = job /\ clients \subseteq clients'
         /\ \A c \in Caller : at[c] = "returned" =>
                at'[c] = "returned" /\ got'[c] = got[c]
<1> USE DEF TypeOK, given, onceVars, lockVars, clientVars, Goto
<1>1. ASSUME NEW d \in Caller, OnceStep(d)
      PROVE  /\ job' = job /\ clients \subseteq clients'
             /\ \A c \in Caller : at[c] = "returned" =>
                    at'[c] = "returned" /\ got'[c] = got[c]
  BY <1>1 DEF OnceStep, EnterCacheOnce, EnterEnabledOnce, CallsIsEnabled,
              ReadEnvironment, SetCacheEnabled, ClientOrNoop
<1>2. ASSUME NEW d \in Caller, LockStep(d)
      PROVE  /\ job' = job /\ clients \subseteq clients'
             /\ \A c \in Caller : at[c] = "returned" =>
                    at'[c] = "returned" /\ got'[c] = got[c]
  BY <1>2 DEF LockStep, RLock, CheckAndRUnlock, ReturnFound, AnnounceLock, Lock,
              Recheck, Publish
<1>3. CASE UNCHANGED singletonVars
  BY <1>3 DEF singletonVars
<1> QED  BY <1>1, <1>2, <1>3 DEF Next, CallerStep

\* The phases of a call under way.
Underway == {"waiting", "sent", "accepted", "refused"}

LEMMA CallsKeep ==
  ASSUME CP!CallInv, CP!CallStep
  PROVE  /\ pool' = pool
         /\ \A c \in Caller : /\ phase'[c] = "new" <=> phase[c] = "new"
                              /\ phase'[c] \in Underway => phase[c] \in Underway
         /\ \A k \in Caller : idle'[k] > 0 =>
                idle[k] > 0 \/ \E c \in Caller : phase[c] # "new" /\ pool[c] = k
<1> USE DEF CP!CallInv, CP!CallTypeOK, CP!Phases, Underway
<1>1. ASSUME NEW c \in Caller, CP!Reuse(c) \/ CP!Dial(c)
      PROVE  /\ pool' = pool /\ phase' = [phase EXCEPT ![c] = "sent"]
             /\ phase[c] = "waiting"
             /\ \A k \in Caller : idle'[k] > 0 => idle[k] > 0
  BY <1>1 DEF CP!Reuse, CP!Dial, CP!Send, CP!Become
<1>2. ASSUME NEW c \in Caller, CP!Act(c) \/ CP!Answer(c) \/ CP!GiveUp(c) \/ CP!CloseBroken(c)
      PROVE  /\ pool' = pool /\ idle' = idle
             /\ \/ phase' = phase
                \/ \E p \in {"accepted", "refused", "failed"} :
                       phase' = [phase EXCEPT ![c] = p] /\ phase[c] \in Underway
  BY <1>2 DEF CP!Act, CP!Answer, CP!GiveUp, CP!CloseBroken, CP!Become
<1>3. ASSUME NEW c \in Caller, CP!ReadAnswer(c)
      PROVE  /\ pool' = pool /\ phase[c] \in Underway
             /\ \E p \in {"ok", "failed"} : phase' = [phase EXCEPT ![c] = p]
             /\ \A k \in Caller : k # pool[c] => idle'[k] = idle[k]
  BY <1>3 DEF CP!ReadAnswer, CP!Become
<1>4. ASSUME NEW d \in Caller, CP!CloseIdle(d)
      PROVE  /\ pool' = pool /\ phase' = phase
             /\ \A k \in Caller : idle'[k] > 0 => idle[k] > 0
  BY <1>4 DEF CP!CloseIdle
<1> QED  BY <1>1, <1>2, <1>3, <1>4 DEF CP!CallStep, CP!Proceed

-----------------------------------------------------------------------------
\* The updates being sent are finitely many.
LEMMA SendingFinite ==
  ASSUME NEW k \in Caller
  PROVE  /\ IsFiniteSet(Sending(k)) /\ Cardinality(Sending(k)) \in Nat
         /\ \A S \in SUBSET Sending(k) :
                Cardinality(S) \in Nat /\ Cardinality(S) =< Cardinality(Sending(k))
<1>1. IsFiniteSet(Caller)
  BY CallConstants, SameCardinality DEF CP!CallAssumption
<1>2. Sending(k) \subseteq Caller
  BY DEF Sending
<1> QED  BY <1>1, <1>2, FS_Subset, FS_CardinalityType

MInv == IInv /\ CP!CallInv /\ UseOK

LEMMA UseInit == ASSUME MInit  PROVE UseOK
<1>1. /\ \A c \in Caller : phase[c] = "new"
      /\ queued = {} /\ reply = [c \in Caller |-> "none"]
      /\ \A k \in Caller : idle[k] = 0
  BY DEF MInit, Calls!Init
<1>2. \A k \in Caller : Sending(k) = {}
  BY <1>1 DEF Sending
<1>3. Cardinality({}) = 0 /\ WorkerCount \in Nat /\ 0 =< WorkerCount
  BY FS_EmptySet, ClientAssumption
<1> QED  BY <1>1, <1>2, <1>3 DEF UseOK, Uses

LEMMA UseKept ==
  ASSUME MInv, [MNext]_mvars
  PROVE  UseOK'
<1> USE DEF MInv
<1>t. /\ TypeOK /\ WorkerCount \in Nat
      /\ phase \in [Caller -> CP!Phases] /\ pool \in [Caller -> Caller \cup {NoClient}]
  BY ClientAssumption DEF IInv, CP!CallInv, CP!CallTypeOK
<1>s. ASSUME NEW k \in Caller, Sending(k)' \subseteq Sending(k)
      PROVE  Cardinality(Sending(k)') =< WorkerCount
  <2>1. Cardinality(Sending(k)) \in Nat /\ Cardinality(Sending(k)) =< WorkerCount
    BY SendingFinite DEF UseOK
  <2>2. /\ Cardinality(Sending(k)') \in Nat
        /\ Cardinality(Sending(k)') =< Cardinality(Sending(k))
    BY <1>s, SendingFinite
  <2> QED  BY <1>t, <2>1, <2>2
<1>1. ASSUME [Next]_singletonVars, UNCHANGED <<callVars, queued, reply>>
      PROVE  UseOK'
  <2>1. /\ job' = job /\ clients \subseteq clients'
        /\ \A c \in Caller : at[c] = "returned" => at'[c] = "returned" /\ got'[c] = got[c]
    BY <1>1, <1>t, SingletonKeeps
  <2>2. phase' = phase /\ pool' = pool /\ idle' = idle /\ queued' = queued /\ reply' = reply
    BY <1>1 DEF callVars
  <2>3. \A k \in Caller : Sending(k)' \subseteq Sending(k)
    BY <2>1, <2>2 DEF Sending, UseOK
  <2> QED  BY <1>s, <2>1, <2>2, <2>3 DEF UseOK, Uses
<1>2. ASSUME Calls!CallStep, UNCHANGED <<singletonVars, queued, reply>>
      PROVE  UseOK'
  <2>1. /\ pool' = pool
        /\ \A c \in Caller : /\ phase'[c] = "new" <=> phase[c] = "new"
                             /\ phase'[c] \in Underway => phase[c] \in Underway
        /\ \A k \in Caller : idle'[k] > 0 =>
               idle[k] > 0 \/ \E c \in Caller : phase[c] # "new" /\ pool[c] = k
    BY <1>2, SameCalls, CallsKeep
  <2>2. /\ at' = at /\ job' = job /\ got' = got /\ clients' = clients
        /\ queued' = queued /\ reply' = reply
    BY <1>2 DEF singletonVars, given, clientVars
  <2>3. \A k \in Caller : Sending(k)' \subseteq Sending(k)
    BY <2>1, <2>2 DEF Sending, Underway
  <2> QED  BY <1>s, <2>1, <2>2, <2>3 DEF UseOK, Uses
<1>3. ASSUME NEW c \in Caller, Query(c)  PROVE UseOK'
  <2>1. /\ phase' = [phase EXCEPT ![c] = "waiting"] /\ pool' = [pool EXCEPT ![c] = got[c]]
        /\ idle' = idle /\ queued' = queued /\ reply' = reply
        /\ at' = at /\ job' = job /\ got' = got /\ clients' = clients
        /\ at[c] = "returned" /\ got[c] \in clients /\ job[c] = "query"
    BY <1>3 DEF Query, Uses, Calls!Begin, Calls!Become, singletonVars, given, clientVars
  <2>2. \A k \in Caller : Sending(k)' \subseteq Sending(k)
    BY <1>t, <2>1 DEF Sending
  <2> QED  BY <1>s, <1>t, <2>1, <2>2 DEF UseOK, Uses
<1>4. ASSUME NEW c \in Caller, Update(c)  PROVE UseOK'
  <2>1. /\ phase' = phase /\ pool' = pool /\ idle' = idle
        /\ at' = at /\ job' = job /\ got' = got /\ clients' = clients
        /\ queued' = queued \/ queued' = queued \cup {c}
        /\ \E answer \in {"ok", "failed"} : reply' = [reply EXCEPT ![c] = answer]
        /\ at[c] = "returned" /\ got[c] \in clients /\ job[c] = "update"
        /\ Uses(c, "update")
    BY <1>4 DEF Update, Uses, Replies, singletonVars, given, clientVars, callVars
  <2>2. \A k \in Caller : Sending(k)' \subseteq Sending(k)
    BY <2>1 DEF Sending
  <2> QED  BY <1>s, <2>1, <2>2 DEF UseOK, Uses
<1>5. ASSUME NEW c \in Caller, TakeUpdate(c)  PROVE UseOK'
  <2>1. /\ phase' = [phase EXCEPT ![c] = "waiting"] /\ pool' = [pool EXCEPT ![c] = got[c]]
        /\ idle' = idle /\ queued' = queued \ {c} /\ phase[c] = "new"
        /\ reply' = reply /\ reply[c] # "none"
        /\ at' = at /\ job' = job /\ got' = got /\ clients' = clients
        /\ Cardinality(Sending(got[c])) < WorkerCount
    BY <1>5 DEF TakeUpdate, Calls!Begin, Calls!Become, singletonVars, given, clientVars, UseOK
  <2>2. at[c] = "returned" /\ got[c] \in clients /\ got[c] \in Caller
    BY <1>5, <1>t DEF TakeUpdate, UseOK, TypeOK
  <2>3. ASSUME NEW k \in Caller  PROVE Cardinality(Sending(k)') =< WorkerCount
    <3>1. CASE k = got[c]
      <4>1. Sending(k)' = Sending(k) \cup {c} \/ Sending(k)' = Sending(k)
        BY <1>t, <2>1, <3>1 DEF Sending
      <4>2. Cardinality(Sending(k) \cup {c}) \in {Cardinality(Sending(k)),
                                                  Cardinality(Sending(k)) + 1}
        BY SendingFinite, FS_AddElement
      <4>3. Cardinality(Sending(k)) \in Nat /\ Cardinality(Sending(k)) < WorkerCount
        BY SendingFinite, <2>1, <3>1
      <4>4. Cardinality(Sending(k)') \in {Cardinality(Sending(k)), Cardinality(Sending(k)) + 1}
        BY <4>1, <4>2
      <4> QED  BY <4>3, <4>4, ClientAssumption
    <3>2. CASE k # got[c]
      <4>1. Sending(k)' \subseteq Sending(k)
        BY <1>t, <2>1, <3>2 DEF Sending
      <4> QED  BY <1>s, <4>1
    <3> QED  BY <3>1, <3>2
  <2> QED  BY <1>t, <2>1, <2>2, <2>3 DEF UseOK, Uses
<1>6. ASSUME NEW c \in Caller, QueryReplies(c) \/ NoopReplies(c)  PROVE UseOK'
  <2>1. /\ phase' = phase /\ pool' = pool /\ idle' = idle /\ queued' = queued
        /\ at' = at /\ job' = job /\ got' = got /\ clients' = clients
        /\ \E answer \in {"ok", "failed"} : reply' = [reply EXCEPT ![c] = answer]
    BY <1>6 DEF QueryReplies, NoopReplies, Replies, singletonVars, given, clientVars, callVars
  <2>2. \A k \in Caller : Sending(k)' \subseteq Sending(k)
    BY <2>1 DEF Sending
  <2> QED  BY <1>s, <2>1, <2>2 DEF UseOK, Uses
<1> QED
  BY <1>1, <1>2, <1>3, <1>4, <1>5, <1>6
     DEF MNext, mvars, useVars, UserStep

LEMMA MInitInv == ASSUME MInit  PROVE MInv
<1>1. IInv
  BY InitInv DEF MInit
<1>2. CP!Init
  BY DEF MInit, Calls!Init, CP!Init
<1> QED  BY <1>1, <1>2, UseInit, CallConstants, CP!CallInit DEF MInv

LEMMA MStepInv ==
  ASSUME MInv, [MNext]_mvars
  PROVE  MInv'
<1>1. IInv'
  BY SingletonPart, StepInv DEF MInv
<1>2. [CP!Next]_(CP!callVars)
  BY CallPart DEF MInv, IInv
<1>3. CP!CallInv'
  BY <1>2, CallConstants, CP!TypesKept DEF MInv
<1> QED  BY <1>1, <1>3, UseKept DEF MInv

-----------------------------------------------------------------------------
\* Of all the clients that there could be, the one that was made sends.
LEMMA Limits ==
  ASSUME MInv, CP!PoolBound
  PROVE  LimitsOfOneClient
<1> SUFFICES ASSUME NEW k \in Caller
             PROVE  /\ Calls!Connections(k) =< MaxConns
                    /\ Cardinality(Sending(k)) =< WorkerCount
                    /\ Calls!Connections(k) > 0 \/ Sending(k) # {} => clients = {k}
  BY DEF LimitsOfOneClient
<1>1. Calls!Connections(k) = CP!Connections(k)
  BY SameCardinality
     DEF Calls!Connections, CP!Connections, Calls!BusyOf, CP!BusyOf
<1>2. k \in clients => clients = {k}
  BY InvOneClient DEF MInv, OneClient
<1>3. CP!Connections(k) > 0 => k \in clients
  <2>1. CASE CP!BusyOf(k) = {}
    <3>1. CP!Cardinality({}) = 0
      BY FS_EmptySet, SameCardinality
    <3>2. idle[k] \in Nat
      BY DEF MInv, CP!CallInv, CP!CallTypeOK
    <3> QED  BY <2>1, <3>1, <3>2 DEF CP!Connections, MInv, UseOK
  <2>2. CASE CP!BusyOf(k) # {}
    BY <2>2 DEF CP!BusyOf, MInv, UseOK, CP!CallInv, CP!CallTypeOK
  <2> QED  BY <2>1, <2>2
<1>4. Sending(k) # {} => k \in clients
  BY DEF Sending, MInv, UseOK
<1>5. CP!Connections(k) =< MaxConns /\ Cardinality(Sending(k)) =< WorkerCount
  BY DEF CP!PoolBound, MInv, UseOK
<1> QED  BY <1>1, <1>2, <1>3, <1>4, <1>5

LEMMA MInitBound == ASSUME MInit  PROVE CP!PoolBound
<1>1. \A k \in Caller : CP!BusyOf(k) = {} /\ idle[k] = 0
  BY DEF MInit, Calls!Init, CP!BusyOf
<1>2. CP!Cardinality({}) = 0
  BY FS_EmptySet, SameCardinality
<1> QED  BY <1>1, <1>2, CallConstants DEF CP!PoolBound, CP!Connections, CP!CallAssumption

LEMMA MStepBound ==
  ASSUME MInv, CP!PoolBound, [MNext]_mvars
  PROVE  CP!PoolBound'
<1>1. [CP!Next]_(CP!callVars)
  BY CallPart DEF MInv, IInv
<1> QED  BY <1>1, CallConstants, CP!BoundKept DEF MInv

LEMMA MetadataInv == MSpec => [](MInv /\ CP!PoolBound)
<1>1. MInit => MInv /\ CP!PoolBound
  BY MInitInv, MInitBound
<1>2. MInv /\ CP!PoolBound /\ [MNext]_mvars => MInv' /\ CP!PoolBound'
  BY MStepInv, MStepBound
<1> QED  BY <1>1, <1>2, PTL DEF MSpec

\* The whole process keeps to the limits configured for one client.
THEOREM ProcessKeepsLimits == MSpec => []LimitsOfOneClient
<1>1. MInv /\ CP!PoolBound => LimitsOfOneClient
  BY Limits
<1> QED  BY <1>1, MetadataInv, PTL

\* What holds of the callers alone holds of them while they use the client.
THEOREM SharedClient == MSpec => [](TypeOK /\ OneClient /\ SameAnswer)
<1>1. MInv => TypeOK /\ OneClient /\ SameAnswer
  BY InvOneClient, InvSameAnswer DEF MInv, IInv
<1> QED  BY <1>1, MetadataInv, PTL

\* Calls through the shared client do what RemoteCall allows: success only
\* after the service has acted, whoever makes them, with whatever timeouts.
THEOREM SharedPromiseSafe ==
  MSpec => CP!Promise!Init /\ [][CP!Promise!Next]_(CP!Promise!vars)
<1>1. MInit => CP!Promise!Init
  <2>1. MInit => CP!Init
    BY DEF MInit, Calls!Init, CP!Init
  <2> QED  BY <2>1, CP!InitRefines
<1>2. MInv /\ [MNext]_mvars => [CP!Promise!Next]_(CP!Promise!vars)
  <2> SUFFICES ASSUME MInv, [MNext]_mvars
               PROVE  [CP!Promise!Next]_(CP!Promise!vars)
    OBVIOUS
  <2>1. [CP!Next]_(CP!callVars)
    BY CallPart DEF MInv, IInv
  <2> QED  BY <2>1, CallConstants, CP!StepRefines DEF MInv
<1> QED  BY <1>1, <1>2, MetadataInv, PTL DEF MSpec
=============================================================================
