--------------------------- MODULE ClientSingleton --------------------------
(***************************************************************************)
(* pkg/metadata/client.go: how concurrent goroutines come by the one       *)
(* client of Metadata-Center.  IsEnabled and IsCacheEnabled read the       *)
(* environment inside a sync.Once each, the second by calling the first;   *)
(* GetClient is a double-checked lock around NewClient, which starts a     *)
(* queue, its workers and a connection pool.                               *)
(*                                                                         *)
(* A writer of the RWMutex announces itself, which keeps new readers out,  *)
(* and then waits until the readers that are in have left.                 *)
(***************************************************************************)
EXTENDS Naturals, FiniteSets

CONSTANTS Caller,      \* the calling goroutines; a client is named by the
                       \* caller that created it
          Wants,       \* what the callers want: the mixes that occur
          NoClient,    \* the nil client
          Noop,        \* the client of a disabled Metadata-Center
          NoCaller     \* nobody

\* A client, to ask it or to have it update something, and IsCacheEnabled.
Jobs == {"query", "update", "cache"}

ASSUME SingletonAssumption ==
    /\ Wants \subseteq [Caller -> Jobs]
    /\ NoClient \notin Caller \cup {Noop} /\ Noop \notin Caller
    /\ NoCaller \notin Caller

VARIABLES hostSet,        \* METADATA_CENTER_HOST is set in the environment
          job,            \* what each caller wants
          at,             \* where each caller stands in it
          enabledOnce, cacheOnce,        \* the sync.Onces
          enabled, cacheEnabled,         \* the variables that they protect
          readers, writer,               \* globalClientMu
          clients,        \* the clients that NewClient has made
          globalClient,
          got             \* the client that each caller was given

onceVars == <<enabledOnce, cacheOnce, enabled, cacheEnabled>>
lockVars == <<readers, writer>>
clientVars == <<clients, globalClient, got>>
given == <<hostSet, job>>
singletonVars == <<given, at, onceVars, lockVars, clientVars>>

Init ==
    /\ hostSet \in BOOLEAN
    /\ job \in Wants
    /\ at = [c \in Caller |-> "start"]
    /\ enabledOnce = "fresh" /\ cacheOnce = "fresh"
    /\ enabled = FALSE /\ cacheEnabled = FALSE
    /\ readers = {} /\ writer = NoCaller
    /\ clients = {} /\ globalClient = NoClient
    /\ got = [c \in Caller |-> NoClient]

Goto(c, place) == at' = [at EXCEPT ![c] = place]

-----------------------------------------------------------------------------
\* IsCacheEnabled: the first caller runs the body of the Once, the others wait
\* for its end.
EnterCacheOnce(c) ==
    /\ at[c] = "start" /\ job[c] = "cache"
    /\ \/ cacheOnce = "fresh" /\ cacheOnce' = "running" /\ Goto(c, "inCacheOnce")
       \/ cacheOnce = "done" /\ Goto(c, "returned") /\ UNCHANGED cacheOnce
    /\ UNCHANGED <<given, enabledOnce, enabled, cacheEnabled, lockVars, clientVars>>

\* IsEnabled is called by GetClientOrNoop, and within the other Once.
CallsIsEnabled(c) ==
    \/ at[c] = "start" /\ job[c] # "cache"
    \/ at[c] = "inCacheOnce"

\* Mutant: a caller does not wait for a body that is still running.
EnterEnabledOnceEarly(c) ==
    /\ CallsIsEnabled(c)
    /\ \/ enabledOnce = "fresh" /\ enabledOnce' = "running" /\ Goto(c, "inEnabledOnce")
       \/ enabledOnce # "fresh" /\ Goto(c, "isEnabled") /\ UNCHANGED enabledOnce
    /\ UNCHANGED <<given, cacheOnce, enabled, cacheEnabled, lockVars, clientVars>>

\* IsEnabled, the same for its own Once.
EnterEnabledOnce(c) ==
    /\ CallsIsEnabled(c)
    /\ \/ enabledOnce = "fresh" /\ enabledOnce' = "running" /\ Goto(c, "inEnabledOnce")
       \/ enabledOnce = "done" /\ Goto(c, "isEnabled") /\ UNCHANGED enabledOnce
    /\ UNCHANGED <<given, cacheOnce, enabled, cacheEnabled, lockVars, clientVars>>

\* The body of IsEnabled's Once, and its end.
ReadEnvironment(c) ==
    /\ at[c] = "inEnabledOnce"
    /\ enabled' = hostSet
    /\ enabledOnce' = "done"
    /\ Goto(c, "isEnabled")
    /\ UNCHANGED <<given, cacheOnce, cacheEnabled, lockVars, clientVars>>

\* The end of IsCacheEnabled's Once: the cache goes with the rest.
SetCacheEnabled(c) ==
    /\ at[c] = "isEnabled" /\ job[c] = "cache"
    /\ cacheEnabled' = enabled
    /\ cacheOnce' = "done"
    /\ Goto(c, "returned")
    /\ UNCHANGED <<given, enabledOnce, enabled, lockVars, clientVars>>

\* GetClientOrNoop: a disabled Metadata-Center gets the empty client.
ClientOrNoop(c) ==
    /\ at[c] = "isEnabled" /\ job[c] # "cache"
    /\ \/ enabled /\ Goto(c, "getClient") /\ UNCHANGED got
       \/ ~enabled /\ Goto(c, "returned") /\ got' = [got EXCEPT ![c] = Noop]
    /\ UNCHANGED <<given, onceVars, lockVars, clients, globalClient>>

-----------------------------------------------------------------------------
\* GetClient: RLock, when no writer is in or has announced itself.
RLock(c) ==
    /\ at[c] = "getClient"
    /\ writer = NoCaller
    /\ readers' = readers \cup {c}
    /\ Goto(c, "reading")
    /\ UNCHANGED <<given, onceVars, writer, clientVars>>

\* Mutant: no RUnlock on the way to the lock.
CheckKeepingRLock(c) ==
    /\ at[c] = "reading"
    /\ readers' = IF globalClient # NoClient THEN readers \ {c} ELSE readers
    /\ Goto(c, IF globalClient # NoClient THEN "found" ELSE "missed")
    /\ UNCHANGED <<given, onceVars, writer, clientVars>>

\* The first check, and RUnlock on either branch.
CheckAndRUnlock(c) ==
    /\ at[c] = "reading"
    /\ readers' = readers \ {c}
    /\ Goto(c, IF globalClient # NoClient THEN "found" ELSE "missed")
    /\ UNCHANGED <<given, onceVars, writer, clientVars>>

\* The found client is returned: read again, without the lock.
ReturnFound(c) ==
    /\ at[c] = "found"
    /\ got' = [got EXCEPT ![c] = globalClient]
    /\ Goto(c, "returned")
    /\ UNCHANGED <<given, onceVars, lockVars, clients, globalClient>>

\* Lock, first half: one writer at a time announces itself.
AnnounceLock(c) ==
    /\ at[c] = "missed"
    /\ writer = NoCaller
    /\ writer' = c
    /\ Goto(c, "announced")
    /\ UNCHANGED <<given, onceVars, readers, clientVars>>

\* Lock, second half: the readers have left.
Lock(c) ==
    /\ at[c] = "announced"
    /\ readers = {}
    /\ Goto(c, "locked")
    /\ UNCHANGED <<given, onceVars, lockVars, clientVars>>

\* Mutant: no second check.
RecheckNothing(c) ==
    /\ at[c] = "locked"
    /\ clients' = clients \cup {c}
    /\ Goto(c, "creating")
    /\ UNCHANGED <<given, onceVars, lockVars, globalClient, got>>

\* The second check: somebody else may have made the client since the first;
\* otherwise NewClient starts its queue, its workers and its pool.
Recheck(c) ==
    /\ at[c] = "locked"
    /\ \/ /\ globalClient # NoClient
          /\ got' = [got EXCEPT ![c] = globalClient]
          /\ writer' = NoCaller
          /\ Goto(c, "returned")
          /\ UNCHANGED clients
       \/ /\ globalClient = NoClient
          /\ clients' = clients \cup {c}
          /\ Goto(c, "creating")
          /\ UNCHANGED <<writer, got>>
    /\ UNCHANGED <<given, onceVars, readers, globalClient>>

\* The new client becomes the global one; the deferred Unlock.
Publish(c) ==
    /\ at[c] = "creating"
    /\ globalClient' = c
    /\ got' = [got EXCEPT ![c] = c]
    /\ writer' = NoCaller
    /\ Goto(c, "returned")
    /\ UNCHANGED <<given, onceVars, readers, clients>>

-----------------------------------------------------------------------------
OnceStep(c) ==
    \/ EnterCacheOnce(c)
    \/ EnterEnabledOnce(c)
    \/ ReadEnvironment(c)
    \/ SetCacheEnabled(c)
    \/ ClientOrNoop(c)

LockStep(c) ==
    \/ RLock(c)
    \/ CheckAndRUnlock(c)
    \/ ReturnFound(c)
    \/ AnnounceLock(c)
    \/ Lock(c)
    \/ Recheck(c)
    \/ Publish(c)

CallerStep(c) == OnceStep(c) \/ LockStep(c)

Next == \E c \in Caller : CallerStep(c)

\* Goroutines run on, and blocked ones are woken when what they wait for comes.
Fairness == \A c \in Caller : WF_singletonVars(CallerStep(c))

Spec == Init /\ [][Next]_singletonVars /\ Fairness

-----------------------------------------------------------------------------
Places == {"start", "inCacheOnce", "inEnabledOnce", "isEnabled", "getClient", "reading",
           "found", "missed", "announced", "locked", "creating", "returned"}

OnceStates == {"fresh", "running", "done"}

\* The types of the singletons' state; the lock is held by those who stand
\* between its Lock and Unlock, and by nobody else.
TypeOK ==
    /\ hostSet \in BOOLEAN
    /\ job \in [Caller -> Jobs]
    /\ at \in [Caller -> Places]
    /\ enabledOnce \in OnceStates /\ cacheOnce \in OnceStates
    /\ enabled \in BOOLEAN /\ cacheEnabled \in BOOLEAN
    /\ readers = {c \in Caller : at[c] = "reading"}
    /\ writer \in Caller \cup {NoCaller}
    /\ \A c \in Caller : writer = c <=> at[c] \in {"announced", "locked", "creating"}
    /\ clients \subseteq Caller
    /\ globalClient \in Caller \cup {NoClient}
    /\ got \in [Caller -> Caller \cup {NoClient, Noop}]

\* However many goroutines ask for the client at the same time, at most one is
\* ever made, so that there is one queue, one pool of workers and one pool of
\* connections (GetClient).
OneClient == \A c, d \in clients : c = d

\* Every caller gets the same answer, and the one that the environment asks
\* for: nobody is told that Metadata-Center is disabled because the variable
\* was still being set, and nobody gets the nil client (IsEnabled,
\* IsCacheEnabled, GetClientOrNoop).
SameAnswer ==
    \A c \in Caller :
        at[c] = "returned" =>
            IF job[c] = "cache" THEN cacheEnabled = hostSet
            ELSE got[c] = IF hostSet THEN globalClient ELSE Noop
=============================================================================
