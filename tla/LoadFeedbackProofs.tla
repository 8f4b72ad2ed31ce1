-------------------------- MODULE LoadFeedbackProofs ------------------------
(***************************************************************************)
(* Proofs about LoadFeedback, for any number of requests and hosts: which  *)
(* updates a request has under way and what the service has of it at each  *)
(* stage (Course), what a request that is choosing was told of (Snapshot), *)
(* and from both that a herd is no larger than what is in flight.          *)
(***************************************************************************)
EXTENDS LoadFeedback, FiniteSetTheorems, TLAPS

Update(r, op) == [req |-> r, op |-> op]
Flying(r, op) == Update(r, op) \in inFlight
Troubled == lost \cup overtaken

\* The updates and the entry of a request at each stage, as long as none of its
\* updates was lost or overtaken: those that have not arrived are the last ones
\* dispatched, and the entry is what the others have made of it.
Course(r) ==
    /\ stage[r] \in {"new", "asked"} =>
           /\ host[r] = NoHost /\ r \notin recorded
           /\ entry[r] = "absent"
    /\ r \notin Troubled =>
           /\ stage[r] \notin {"new", "asked"} => r \in recorded
           /\ stage[r] = "prefill" =>
                  /\ ~Flying(r, "deletePrompt") /\ ~Flying(r, "delete")
                  /\ entry[r] = IF Flying(r, "add") THEN "absent" ELSE "prefill"
           /\ stage[r] = "decode" =>
                  /\ ~Flying(r, "delete")
                  /\ Flying(r, "add") => Flying(r, "deletePrompt")
                  /\ entry[r] = IF Flying(r, "add") THEN "absent"
                                ELSE IF Flying(r, "deletePrompt") THEN "prefill" ELSE "decode"
           /\ stage[r] = "destroyed" =>
                  /\ Flying(r, "add") \/ Flying(r, "deletePrompt") => Flying(r, "delete")
                  /\ Flying(r, "add") \/ ~Flying(r, "delete") => entry[r] = "absent"

DInv == TypeOK /\ \A r \in Request : Course(r)

-----------------------------------------------------------------------------
LEMMA UpdatesDiffer ==
  ASSUME NEW r, NEW q, NEW o, NEW p, Update(r, o) = Update(q, p)
  PROVE  r = q /\ o = p
BY DEF Update

LEMMA CountsAreNaturals ==
  ASSUME NEW S, IsFiniteSet(S), NEW T \in SUBSET S
  PROVE  Cardinality(T) \in Nat /\ IsFiniteSet(T)
BY FS_Subset, FS_CardinalityType

LEMMA ReportTypes ==
  Report \in [Host -> [queued : Nat, prompt : Nat]]
<1>1. \A h, states : Cardinality(EntriesOf(h, states)) \in Nat
  BY FeedbackAssumption, CountsAreNaturals DEF EntriesOf
<1>2. \A h : Cardinality(EntriesOf(h, {"prefill"})) * Prompt \in Nat
  BY <1>1, FeedbackAssumption
<1> QED  BY <1>1, <1>2 DEF Report

\* What Dispatch does to the updates.
LEMMA DispatchEffect ==
  ASSUME NEW r, NEW op, Dispatch(r, op)
  PROVE  \/ inFlight' = inFlight \cup {Update(r, op)} /\ lost' = lost
         \/ lost' = lost \cup {r} /\ inFlight' = inFlight
BY DEF Dispatch, Update

LEMMA DispatchIfRecordedEffect ==
  ASSUME NEW r, NEW op, DispatchIfRecorded(r, op)
  PROVE  \/ r \in recorded /\ inFlight' = inFlight \cup {Update(r, op)} /\ lost' = lost
         \/ r \in recorded /\ lost' = lost \cup {r} /\ inFlight' = inFlight
         \/ r \notin recorded /\ lost' = lost /\ inFlight' = inFlight
BY DispatchEffect DEF DispatchIfRecorded

LEMMA HideTypes ==
  ASSUME TypeOK, NEW r \in Request, Hide(r)
  PROVE  blind' \in [Request -> SUBSET Request]
BY DEF Hide, TypeOK

LEMMA CandidateHosts ==
  ASSUME NEW r \in Request, NEW top \in Candidates(r)
  PROVE  top \subseteq Host
BY DEF Candidates, LB!TopCandidates

-----------------------------------------------------------------------------
LEMMA InitDInv == Init => DInv
<1> SUFFICES ASSUME Init  PROVE DInv
  OBVIOUS
<1>1. TypeOK
  BY DEF Init, TypeOK
<1>2. \A r \in Request : Course(r)
  BY DEF Init, Course
<1> QED  BY <1>1, <1>2 DEF DInv

\* The steps of the requests keep the types.
LEMMA RequestTypes ==
  ASSUME DInv, NEW r \in Request, AskLoad(r) \/ Choose(r) \/ FirstToken(r) \/ Destroy(r)
  PROVE  TypeOK'
<1>0. TypeOK /\ DInv
  BY DEF DInv
<1> USE DEF TypeOK
<1>1. CASE AskLoad(r)
  <2>1. seen' \in [Request -> {NoAnswer} \cup [Host -> [queued : Nat, prompt : Nat]]]
    BY <1>0, <1>1, ReportTypes DEF AskLoad
  <2>2. Unsettled \in SUBSET Request
    BY <1>0 DEF Unsettled
  <2>3. blind' \in [Request -> SUBSET Request]
    BY <1>0, <1>1, <2>2 DEF AskLoad
  <2> QED  BY <1>0, <1>1, <2>1, <2>3 DEF AskLoad, updateVars
<1>2. CASE Choose(r)
  <2>1. PICK h \in Host : host' = [host EXCEPT ![r] = h]
    BY <1>2, CandidateHosts DEF Choose
  <2>2. blind' \in [Request -> SUBSET Request]
    BY <1>0, <1>2, HideTypes DEF Choose
  <2>3. /\ stage' = [stage EXCEPT ![r] = "prefill"]
        /\ seen' = [seen EXCEPT ![r] = NoAnswer]
        /\ UNCHANGED <<overtaken, entry>>
    BY <1>2 DEF Choose
  <2>4. /\ inFlight' \subseteq [req : recorded', op : Ops]
        /\ recorded' \subseteq Request /\ lost' \subseteq Request
    <3>1. CASE inFlight' = inFlight /\ lost' = lost \cup {r}
      BY <1>0, <1>2, <3>1 DEF Choose
    <3>2. CASE inFlight' = inFlight \cup {Update(r, "add")} /\ lost' = lost
      <4>1. recorded' = recorded \cup {r} \/ (recorded' = recorded /\ inFlight' = inFlight)
        BY <1>2 DEF Choose
      <4> QED  BY <1>0, <3>2, <4>1 DEF Update, Ops
    <3> QED  BY <1>2, <3>1, <3>2, DispatchEffect DEF Choose
  <2> QED  BY <1>0, <2>1, <2>2, <2>3, <2>4
<1>3. ASSUME NEW op \in Ops, NEW place \in {"decode", "destroyed"},
             stage' = [stage EXCEPT ![r] = place], Hide(r),
             \/ DispatchIfRecorded(r, op)
             \/ UNCHANGED <<inFlight, lost>>,
             UNCHANGED <<host, recorded, seen, overtaken, entry>>
      PROVE  TypeOK'
  <2>1. /\ inFlight' \subseteq [req : recorded, op : Ops]
        /\ lost' \subseteq Request
    BY <1>0, <1>3, DispatchIfRecordedEffect DEF Update
  <2> QED  BY <1>0, <1>3, <2>1, HideTypes
<1>4. CASE FirstToken(r)
  BY <1>3, <1>4 DEF FirstToken, Ops
<1>5. CASE Destroy(r)
  BY <1>3, <1>5 DEF Destroy, Ops
<1> QED  BY <1>1, <1>2, <1>4, <1>5

\* The steps of the updates keep the types.
LEMMA UpdateTypes ==
  ASSUME TypeOK, NEW u \in inFlight, Serve(u) \/ Lose(u)
  PROVE  TypeOK'
<1> USE DEF TypeOK
<1>1. u.req \in Request /\ u.op \in Ops /\ u = Update(u.req, u.op)
  BY DEF Update
<1>2. \A old \in {"absent", "prefill", "decode"} : After(u.op, old) \in {"absent", "prefill", "decode"}
  BY <1>1 DEF After, Ops
<1>3. CASE Serve(u)
  <2>1. entry' \in [Request -> {"absent", "prefill", "decode"}]
    BY <1>1, <1>2, <1>3 DEF Serve
  <2> QED  BY <1>1, <1>3, <2>1 DEF Serve, requestVars
<1>4. CASE Lose(u)
  BY <1>1, <1>4 DEF Lose, requestVars
<1> QED  BY <1>3, <1>4

\* A request of which nothing changes, or that gets in trouble, keeps its course.
LEMMA SameCourse ==
  ASSUME NEW q, Course(q),
         stage'[q] = stage[q], host'[q] = host[q], entry'[q] = entry[q],
         q \in recorded' <=> q \in recorded,
         q \in Troubled => q \in Troubled',
         q \in Troubled' \/ \A op : Flying(q, op)' <=> Flying(q, op)
  PROVE  Course(q)'
BY DEF Course

\* What a dispatch leaves of the updates in flight and the trouble.
LEMMA DispatchCourse ==
  ASSUME NEW r, NEW op, overtaken' = overtaken,
         \/ inFlight' = inFlight \cup {Update(r, op)} /\ lost' = lost
         \/ lost' = lost \cup {r} /\ inFlight' = inFlight
  PROVE  /\ \A q, o : q # r => (Flying(q, o)' <=> Flying(q, o))
         /\ \A q : q # r => (q \in Troubled' <=> q \in Troubled)
         /\ r \in Troubled => r \in Troubled'
         /\ r \notin Troubled' =>
                \A o : Flying(r, o)' <=> Flying(r, o) \/ o = op
BY UpdatesDiffer DEF Flying, Troubled

LEMMA ChooseCourse ==
  ASSUME DInv, NEW r \in Request, Choose(r)
  PROVE  \A q \in Request : Course(q)'
<1>0. TypeOK /\ \A q \in Request : Course(q)
  BY DEF DInv
<1>1. PICK h \in Host : host' = [host EXCEPT ![r] = h]
  BY CandidateHosts DEF Choose
<1>2. /\ stage[r] = "asked" /\ stage' = [stage EXCEPT ![r] = "prefill"]
      /\ UNCHANGED <<overtaken, entry>>
      /\ recorded' = IF inFlight' # inFlight THEN recorded \cup {r} ELSE recorded
      /\ \/ inFlight' = inFlight \cup {Update(r, "add")} /\ lost' = lost
         \/ lost' = lost \cup {r} /\ inFlight' = inFlight
  BY DispatchEffect DEF Choose
<1>3. r \notin recorded /\ entry[r] = "absent" /\ \A o : ~Flying(r, o)
  BY <1>0, <1>2 DEF Course, TypeOK, Flying, Update
<1>4. ASSUME NEW q \in Request, q # r  PROVE Course(q)'
  <2>1. /\ stage'[q] = stage[q] /\ host'[q] = host[q] /\ entry'[q] = entry[q]
        /\ q \in recorded' <=> q \in recorded
    BY <1>0, <1>1, <1>2, <1>4 DEF TypeOK
  <2> QED  BY <1>0, <1>2, <1>4, <2>1, SameCourse, DispatchCourse
<1>5. Course(r)'
  <2>1. stage'[r] = "prefill" /\ entry'[r] = "absent"
    BY <1>0, <1>2, <1>3 DEF TypeOK
  <2>2. CASE r \in Troubled'
    BY <2>1, <2>2 DEF Course
  <2>3. CASE r \notin Troubled'
    <3>1. \A o : Flying(r, o)' <=> o = "add"
      BY <1>2, <1>3, <2>3, DispatchCourse
    <3>2. r \in recorded'
      BY <1>2, <1>3, <2>3 DEF Troubled, Flying
    <3> QED  BY <2>1, <3>1, <3>2 DEF Course
  <2> QED  BY <2>2, <2>3
<1> QED  BY <1>4, <1>5

\* FirstToken and Destroy: with nothing recorded an add was lost.
LEMMA MoveOnCourse ==
  ASSUME DInv, NEW r \in Request, FirstToken(r) \/ Destroy(r)
  PROVE  \A q \in Request : Course(q)'
<1>0. TypeOK /\ \A q \in Request : Course(q)
  BY DEF DInv
<1>1. PICK op \in {"deletePrompt", "delete"} :
        /\ op = "deletePrompt" => stage[r] = "prefill" /\ stage' = [stage EXCEPT ![r] = "decode"]
        /\ op = "delete" => /\ stage[r] \in {"prefill", "decode"}
                            /\ stage' = [stage EXCEPT ![r] = "destroyed"]
        /\ DispatchIfRecorded(r, op)
        /\ UNCHANGED <<host, recorded, overtaken, entry>>
  BY DEF FirstToken, Destroy
<1>2. stage[r] \in {"prefill", "decode"} /\ stage'[r] \in {"decode", "destroyed"}
  BY <1>0, <1>1 DEF TypeOK
<1>3. CASE r \notin recorded
  <2>1. inFlight' = inFlight /\ lost' = lost
    BY <1>1, <1>3, DispatchIfRecordedEffect
  <2>2. r \in Troubled /\ r \in Troubled'
    BY <1>0, <1>1, <1>2, <1>3, <2>1 DEF Course, Troubled
  <2>3. Course(r)'
    BY <1>2, <2>2 DEF Course
  <2>4. ASSUME NEW q \in Request, q # r  PROVE Course(q)'
    <3>1. stage'[q] = stage[q]
      BY <1>0, <1>1, <2>4 DEF TypeOK
    <3> QED  BY <1>0, <1>1, <2>1, <3>1, SameCourse DEF Flying, Troubled
  <2> QED  BY <2>3, <2>4
<1>4. CASE r \in recorded
  <2>1. \/ inFlight' = inFlight \cup {Update(r, op)} /\ lost' = lost
        \/ lost' = lost \cup {r} /\ inFlight' = inFlight
    BY <1>1, <1>4, DispatchIfRecordedEffect
  <2>2. ASSUME NEW q \in Request, q # r  PROVE Course(q)'
    <3>1. stage'[q] = stage[q]
      BY <1>0, <1>1, <2>2 DEF TypeOK
    <3> QED  BY <1>0, <1>1, <2>1, <2>2, <3>1, SameCourse, DispatchCourse
  <2>3. Course(r)'
    <3>1. CASE r \in Troubled'
      BY <1>2, <3>1 DEF Course
    <3>2. CASE r \notin Troubled'
      <4>1. r \notin Troubled /\ \A o : Flying(r, o)' <=> Flying(r, o) \/ o = op
        BY <1>1, <2>1, <3>2, DispatchCourse
      <4>2. Course(r) /\ r \in recorded' /\ entry'[r] = entry[r]
        BY <1>0, <1>1, <1>4
      <4>3. CASE op = "deletePrompt"
        <5>1. stage[r] = "prefill" /\ stage'[r] = "decode"
          BY <1>0, <1>1, <4>3 DEF TypeOK
        <5> QED  BY <3>2, <4>1, <4>2, <4>3, <5>1 DEF Course
      <4>4. CASE op = "delete"
        <5>1. stage[r] \in {"prefill", "decode"} /\ stage'[r] = "destroyed"
          BY <1>0, <1>1, <4>4 DEF TypeOK
        <5> QED  BY <3>2, <4>1, <4>2, <4>4, <5>1 DEF Course
      <4> QED  BY <4>3, <4>4
    <3> QED  BY <3>1, <3>2
  <2> QED  BY <2>2, <2>3
<1> QED  BY <1>3, <1>4

LEMMA ServeCourse ==
  ASSUME DInv, NEW u \in inFlight, Serve(u)
  PROVE  \A q \in Request : Course(q)'
<1>0. TypeOK /\ \A q \in Request : Course(q)
  BY DEF DInv
<1> DEFINE r == u.req
<1>1. r \in Request /\ u.op \in Ops /\ u = Update(r, u.op) /\ r \in recorded /\ Flying(r, u.op)
  BY <1>0 DEF TypeOK, Update, Flying
<1>2. /\ inFlight' = inFlight \ {u}
      /\ entry' = [entry EXCEPT ![r] = After(u.op, @)]
      /\ overtaken' = IF \E v \in inFlight : v.req = r /\ v.op \in Earlier(u.op)
                      THEN overtaken \cup {r} ELSE overtaken
      /\ UNCHANGED <<stage, host, recorded, lost>>
  BY DEF Serve, requestVars
<1> HIDE DEF r
<1>3. \A q, o : Flying(q, o)' <=> Flying(q, o) /\ ~(q = r /\ o = u.op)
  BY <1>1, <1>2, UpdatesDiffer DEF Flying
<1>4. ASSUME NEW q \in Request, q # r  PROVE Course(q)'
  <2>1. entry'[q] = entry[q]
    BY <1>0, <1>2, <1>4 DEF TypeOK
  <2> QED  BY <1>0, <1>2, <1>3, <1>4, <2>1, SameCourse DEF Troubled
<1>5. Course(r)'
  <2>1. stage'[r] = stage[r] /\ stage[r] \notin {"new", "asked"}
    BY <1>0, <1>1, <1>2 DEF Course
  <2>2. CASE r \in Troubled'
    BY <2>1, <2>2 DEF Course
  <2>3. CASE r \notin Troubled'
    <3>1. r \notin Troubled /\ \A o \in Earlier(u.op) : ~Flying(r, o)
      BY <1>2, <2>3 DEF Troubled, Flying, Update
    <3>2. entry'[r] = After(u.op, entry[r])
      BY <1>0, <1>1, <1>2 DEF TypeOK
    <3>3. Course(r) /\ r \in recorded' /\ stage[r] \in {"prefill", "decode", "destroyed"}
      BY <1>0, <1>1, <1>2, <2>1 DEF TypeOK
    <3>4. CASE u.op = "add"
      BY <1>1, <1>3, <2>1, <2>3, <3>1, <3>2, <3>3, <3>4 DEF Course, After
    <3>5. CASE u.op = "deletePrompt"
      <4>1. ~Flying(r, "add")
        BY <3>1, <3>5 DEF Earlier
      <4> QED  BY <1>1, <1>3, <2>1, <2>3, <3>1, <3>2, <3>3, <3>5, <4>1 DEF Course, After
    <3>6. CASE u.op = "delete"
      <4>1. ~Flying(r, "add") /\ ~Flying(r, "deletePrompt")
        BY <3>1, <3>6 DEF Earlier
      <4> QED  BY <1>1, <1>3, <2>1, <2>3, <3>1, <3>2, <3>3, <3>6, <4>1 DEF Course, After
    <3> QED  BY <1>1, <3>4, <3>5, <3>6 DEF Ops
  <2> QED  BY <2>2, <2>3
<1> QED  BY <1>4, <1>5

LEMMA LoseCourse ==
  ASSUME DInv, NEW u \in inFlight, Lose(u)
  PROVE  \A q \in Request : Course(q)'
<1>0. TypeOK /\ \A q \in Request : Course(q)
  BY DEF DInv
<1>1. u = Update(u.req, u.op)
  BY <1>0 DEF TypeOK, Update
<1>2. inFlight' = inFlight \ {u} /\ lost' = lost \cup {u.req}
      /\ UNCHANGED <<stage, host, recorded, overtaken, entry>>
  BY DEF Lose, requestVars
<1>3. \A q, o : q # u.req => (Flying(q, o)' <=> Flying(q, o))
  BY <1>1, <1>2, UpdatesDiffer DEF Flying
<1> QED  BY <1>0, <1>2, <1>3, SameCourse DEF Troubled

LEMMA NextDInv == DInv /\ [Next]_vars => DInv'
<1> SUFFICES ASSUME DInv, [Next]_vars  PROVE DInv'
  OBVIOUS
<1>0. TypeOK /\ \A q \in Request : Course(q)
  BY DEF DInv
<1>1. ASSUME NEW r \in Request, AskLoad(r)  PROVE DInv'
  <2>1. ASSUME NEW q \in Request  PROVE Course(q)'
    <3>1. /\ stage' = [stage EXCEPT ![r] = "asked"] /\ stage[r] = "new"
          /\ UNCHANGED <<host, recorded, inFlight, lost, overtaken, entry>>
      BY <1>1 DEF AskLoad, updateVars
    <3>2. CASE q = r
      BY <1>0, <3>1, <3>2 DEF Course, TypeOK
    <3>3. CASE q # r
      BY <1>0, <3>1, <3>3, SameCourse DEF TypeOK, Flying, Troubled
    <3> QED  BY <3>2, <3>3
  <2> QED  BY <1>1, <2>1, RequestTypes DEF DInv
<1>2. ASSUME NEW r \in Request, Choose(r)  PROVE DInv'
  BY <1>2, RequestTypes, ChooseCourse DEF DInv
<1>3. ASSUME NEW r \in Request, FirstToken(r) \/ Destroy(r)  PROVE DInv'
  BY <1>3, RequestTypes, MoveOnCourse DEF DInv
<1>4. ASSUME NEW u \in inFlight, Serve(u)  PROVE DInv'
  BY <1>0, <1>4, UpdateTypes, ServeCourse DEF DInv
<1>5. ASSUME NEW u \in inFlight, Lose(u)  PROVE DInv'
  BY <1>0, <1>5, UpdateTypes, LoseCourse DEF DInv
<1>6. CASE UNCHANGED vars
  BY <1>6 DEF DInv, TypeOK, Course, vars, requestVars, updateVars, Flying, Troubled
<1> QED  BY <1>1, <1>2, <1>3, <1>4, <1>5, <1>6 DEF Next

-----------------------------------------------------------------------------
\* The types of the requests and their updates hold throughout; only a request
\* whose add was accepted has updates.
THEOREM FeedbackTypes == Spec => []TypeOK
<1>1. DInv => TypeOK
  BY DEF DInv
<1> QED  BY <1>1, InitDInv, NextDInv, PTL DEF Spec

\* What an error in the load comes from, in one state.
LEMMA CourseExplainsDrift == DInv => DriftExplained
<1> SUFFICES ASSUME DInv, NEW r \in Request, r \notin Unsettled
             PROVE  entry[r] = Standing(r)
  BY DEF DriftExplained
<1>1. r \notin Troubled /\ \A o : ~Flying(r, o)
  BY DEF Unsettled, Troubled, Flying, Update
<1> QED  BY <1>1 DEF DInv, TypeOK, Course, Standing

\* For any number of requests, lost and overtaken updates: once all the updates
\* of a request have arrived in order the service has it right.
THEOREM DriftHasACause == Spec => []DriftExplained
BY InitDInv, NextDInv, CourseExplainsDrift, PTL DEF Spec

-----------------------------------------------------------------------------
\* What a request that is choosing was told of the load: off from what runs by
\* no more than the requests that it is blind for.
Unseen(r, h) == {q \in blind[r] : host[q] = h}
Steady(r, h, stages) == {q \in Request \ blind[r] : host[q] = h /\ Standing(q) \in stages}
On(h, stages) == {q \in Request : host[q] = h /\ Standing(q) \in stages}
Between(n, S, U) == Cardinality(S) =< n /\ n =< Cardinality(S) + Cardinality(U)

Told(r, h) ==
    /\ Between(seen[r][h].queued, Steady(r, h, {"prefill", "decode"}), Unseen(r, h))
    /\ \E n \in Nat : /\ seen[r][h].prompt = n * Prompt
                      /\ Between(n, Steady(r, h, {"prefill"}), Unseen(r, h))

Snapshot == \A r \in Request : seen[r] # NoAnswer =>
                                   stage[r] = "asked" /\ \A h \in Host : Told(r, h)

LInv == DInv /\ Snapshot

\* A set between S and S with U.
LEMMA SetsBetween ==
  ASSUME NEW S \in SUBSET Request, NEW U \in SUBSET Request, NEW T,
         S \subseteq T, T \subseteq S \cup U
  PROVE  Between(Cardinality(T), S, U)
<1>1. IsFiniteSet(S) /\ IsFiniteSet(U) /\ IsFiniteSet(T)
      /\ Cardinality(S) \in Nat /\ Cardinality(U) \in Nat /\ Cardinality(T) \in Nat
  BY FeedbackAssumption, CountsAreNaturals
<1>2. Cardinality(S) =< Cardinality(T)
  BY <1>1, FS_Subset
<1>3. IsFiniteSet(S \cup U) /\ Cardinality(S \cup U) =< Cardinality(S) + Cardinality(U)
  <2>1. /\ Cardinality(S \cup U) = Cardinality(S) + Cardinality(U) - Cardinality(S \cap U)
        /\ IsFiniteSet(S \cup U)
    BY <1>1, FS_Union
  <2>2. Cardinality(S \cap U) \in Nat
    BY FeedbackAssumption, CountsAreNaturals
  <2> QED  BY <1>1, <2>1, <2>2
<1>4. Cardinality(T) =< Cardinality(S \cup U) /\ Cardinality(S \cup U) \in Nat
  BY <1>3, FS_Subset, FS_CardinalityType
<1> QED  BY <1>1, <1>2, <1>3, <1>4 DEF Between

\* The bounds stay when members of S come to U, and others are added to U.
LEMMA StillBetween ==
  ASSUME NEW n \in Nat, NEW S \in SUBSET Request, NEW U \in SUBSET Request,
         NEW S2 \in SUBSET Request, NEW U2 \in SUBSET Request,
         S \cap U = {}, S2 \subseteq S, U \subseteq U2, S \subseteq S2 \cup U2,
         Between(n, S, U)
  PROVE  Between(n, S2, U2)
<1>1. /\ IsFiniteSet(S) /\ IsFiniteSet(U) /\ IsFiniteSet(S2) /\ IsFiniteSet(U2)
      /\ Cardinality(S) \in Nat /\ Cardinality(U) \in Nat
      /\ Cardinality(S2) \in Nat /\ Cardinality(U2) \in Nat
  BY FeedbackAssumption, CountsAreNaturals
<1>2. Cardinality(S2) =< Cardinality(S)
  BY <1>1, FS_Subset
<1>3. Cardinality(S \cup U) = Cardinality(S) + Cardinality(U)
  <2>1. Cardinality(S \cup U) = Cardinality(S) + Cardinality(U) - Cardinality(S \cap U)
    BY <1>1, FS_Union
  <2>2. Cardinality(S \cap U) = 0
    BY FS_EmptySet
  <2> QED  BY <1>1, <2>1, <2>2
<1>4. Cardinality(S \cup U) =< Cardinality(S2) + Cardinality(U2)
  BY SetsBetween DEF Between
<1> QED  BY <1>1, <1>2, <1>3, <1>4 DEF Between

LEMMA InitSnapshot == Init => Snapshot
BY DEF Init, Snapshot

\* The load is told as it stands, but for the requests that are not settled.
LEMMA ToldAsItStands ==
  ASSUME DInv, NEW r \in Request, NEW h \in Host,
         seen'[r] = Report, blind'[r] = Unsettled,
         UNCHANGED host, \A q \in Request : Standing(q)' = Standing(q)
  PROVE  Told(r, h)'
<1> DEFINE S(stages) == {q \in Request \ Unsettled : host[q] = h /\ Standing(q) \in stages}
           U == {q \in Unsettled : host[q] = h}
<1>0. Unsettled \in SUBSET Request
  BY DEF DInv, TypeOK, Unsettled
<1>1. /\ Steady(r, h, {"prefill", "decode"})' = S({"prefill", "decode"})
      /\ Steady(r, h, {"prefill"})' = S({"prefill"})
      /\ Unseen(r, h)' = U
  BY DEF Steady, Unseen
<1>2. \A q \in Request \ Unsettled : entry[q] = Standing(q)
  BY CourseExplainsDrift DEF DriftExplained
<1>3. ASSUME NEW stages
      PROVE  Between(Cardinality(EntriesOf(h, stages)), S(stages), U)
  <2>1. S(stages) \subseteq EntriesOf(h, stages) /\ EntriesOf(h, stages) \subseteq S(stages) \cup U
    BY <1>2 DEF EntriesOf
  <2>2. S(stages) \in SUBSET Request /\ U \in SUBSET Request
    BY <1>0
  <2> HIDE DEF S, U
  <2> QED  BY <2>1, <2>2, SetsBetween
<1>4. /\ seen'[r][h].queued = Cardinality(EntriesOf(h, {"prefill", "decode"}))
      /\ seen'[r][h].prompt = Cardinality(EntriesOf(h, {"prefill"})) * Prompt
  BY DEF Report
<1>5. Cardinality(EntriesOf(h, {"prefill"})) \in Nat
  BY FeedbackAssumption, CountsAreNaturals DEF EntriesOf
<1> HIDE DEF S, U
<1>6. /\ Between(seen'[r][h].queued, S({"prefill", "decode"}), U)
      /\ \E n \in Nat : seen'[r][h].prompt = n * Prompt /\ Between(n, S({"prefill"}), U)
  BY <1>3, <1>4, <1>5
<1> QED  BY <1>1, <1>6 DEF Told, Between

\* A step that changes only requests that the chooser is then blind for.
LEMMA ToldBefore ==
  ASSUME DInv, DInv', NEW r \in Request, NEW h \in Host,
         seen[r] # NoAnswer, Told(r, h), seen'[r] = seen[r],
         blind[r] \subseteq blind'[r],
         \A q \in Request : /\ host'[q] = host[q] \/ (q \in blind'[r] /\ host[q] = NoHost)
                            /\ Standing(q)' = Standing(q) \/ q \in blind'[r]
  PROVE  Told(r, h)'
<1> DEFINE S(stages) == {q \in Request \ blind'[r] : host'[q] = h /\ Standing(q)' \in stages}
<1>1. /\ Steady(r, h, {"prefill", "decode"})' = S({"prefill", "decode"})
      /\ Steady(r, h, {"prefill"})' = S({"prefill"})
  BY DEF Steady
<1>2. blind[r] \in SUBSET Request /\ blind'[r] \in SUBSET Request /\ h # NoHost
  BY FeedbackAssumption DEF DInv, TypeOK
<1>3. ASSUME NEW stages
      PROVE  /\ Steady(r, h, stages) \in SUBSET Request /\ S(stages) \in SUBSET Request
             /\ Unseen(r, h) \in SUBSET Request /\ Unseen(r, h)' \in SUBSET Request
             /\ Steady(r, h, stages) \cap Unseen(r, h) = {}
             /\ S(stages) \subseteq Steady(r, h, stages)
             /\ Unseen(r, h) \subseteq Unseen(r, h)'
             /\ Steady(r, h, stages) \subseteq S(stages) \cup Unseen(r, h)'
  BY <1>2 DEF Steady, Unseen
<1> HIDE DEF S
<1>4. ASSUME NEW n \in Nat, NEW stages, Between(n, Steady(r, h, stages), Unseen(r, h))
      PROVE  Between(n, S(stages), Unseen(r, h)')
  BY <1>3, <1>4, StillBetween
<1>5. seen[r][h].queued \in Nat
  BY DEF DInv, TypeOK
<1>6. /\ Between(seen[r][h].queued, S({"prefill", "decode"}), Unseen(r, h)')
      /\ \E n \in Nat : seen[r][h].prompt = n * Prompt /\ Between(n, S({"prefill"}), Unseen(r, h)')
  BY <1>4, <1>5 DEF Told
<1> QED  BY <1>1, <1>6 DEF Told, Between

LEMMA NextSnapshot == LInv /\ [Next]_vars => Snapshot'
<1> SUFFICES ASSUME LInv, [Next]_vars, NEW r \in Request, seen'[r] # NoAnswer
             PROVE  stage'[r] = "asked" /\ \A h \in Host : Told(r, h)'
  BY DEF Snapshot
<1> DEFINE Goal == stage'[r] = "asked" /\ \A h \in Host : Told(r, h)'
<1>0. DInv /\ DInv' /\ TypeOK /\ Snapshot
  BY NextDInv DEF LInv, DInv
<1>1. ASSUME NEW x \in Request, AskLoad(x)  PROVE Goal
  <2>1. /\ stage[x] = "new" /\ stage' = [stage EXCEPT ![x] = "asked"]
        /\ seen' = [seen EXCEPT ![x] = Report] \/ seen' = seen
        /\ blind' = [blind EXCEPT ![x] = Unsettled]
        /\ UNCHANGED host
    BY <1>1 DEF AskLoad
  <2>2. \A q \in Request : Standing(q)' = Standing(q)
    BY <1>0, <2>1 DEF TypeOK, Standing
  <2>3. CASE x = r
    <3>1. seen'[r] = Report /\ stage'[r] = "asked"
      BY <1>0, <2>1, <2>3 DEF TypeOK, Snapshot
    <3> QED  BY <1>0, <2>1, <2>2, <2>3, <3>1, ToldAsItStands DEF TypeOK
  <2>4. CASE x # r
    <3>1. seen'[r] = seen[r] /\ blind'[r] = blind[r] /\ stage'[r] = stage[r]
      BY <1>0, <2>1, <2>4 DEF TypeOK
    <3> QED  BY <1>0, <2>1, <2>2, <3>1, ToldBefore DEF Snapshot
  <2> QED  BY <2>3, <2>4
<1>2. ASSUME NEW x \in Request, Choose(x) \/ FirstToken(x) \/ Destroy(x)  PROVE Goal
  <2>1. /\ \E place \in {"prefill", "decode", "destroyed"} : stage' = [stage EXCEPT ![x] = place]
        /\ Hide(x)
        /\ seen' = [seen EXCEPT ![x] = NoAnswer] \/ seen' = seen
    BY <1>2 DEF Choose, FirstToken, Destroy
  <2>2. r # x
    BY <1>0, <1>2 DEF Choose, FirstToken, Destroy, TypeOK, Snapshot
  <2>3. /\ seen'[r] = seen[r] /\ stage[r] = "asked" /\ stage'[r] = "asked"
        /\ blind'[r] = blind[r] \cup {x}
    BY <1>0, <2>1, <2>2 DEF TypeOK, Hide, Snapshot
  <2>4. \A q \in Request : q = x \/ (host'[q] = host[q] /\ Standing(q)' = Standing(q))
    <3>1. \A q \in Request : q # x => host'[q] = host[q]
      BY <1>0, <1>2 DEF Choose, FirstToken, Destroy, TypeOK
    <3>2. \A q \in Request : q # x => stage'[q] = stage[q]
      BY <1>0, <2>1 DEF TypeOK
    <3> QED  BY <3>1, <3>2 DEF Standing
  <2>5. host'[x] = host[x] \/ host[x] = NoHost
    BY <1>0, <1>2 DEF Choose, FirstToken, Destroy, DInv, Course
  <2> QED  BY <1>0, <2>3, <2>4, <2>5, ToldBefore DEF Snapshot
<1>3. CASE \/ \E u \in inFlight : Serve(u) \/ Lose(u)
           \/ UNCHANGED vars
  <2>1. UNCHANGED <<stage, host, seen, blind>>
    BY <1>3 DEF Serve, Lose, requestVars, vars
  <2>2. \A q \in Request : Standing(q)' = Standing(q)
    BY <2>1 DEF Standing
  <2> QED  BY <1>0, <2>1, <2>2, ToldBefore DEF Snapshot
<1> QED  BY <1>1, <1>2, <1>3 DEF Next

-----------------------------------------------------------------------------
\* The scores of a choice, with the lemmas of InferenceLBProofs about maxima and
\* products.
LBP == INSTANCE InferenceLBProofs WITH
    stats <- seen, percent <- Percent, cacheHits <- [h \in Host |-> 0],
    step <- "score", candidates <- {}, chosen <- NoHost,
    Reported <- {}, Absent <- NoAnswer, HashCount <- 1, CacheRadioWeight <- 0,
    Percents <- {Percent}

\* What the lemmas of the instance assume of its constants.
LEMMA ScoreConstants == LBP!LBAssumption
<1>1. LBP!IsFiniteSet(Host)
  BY FeedbackAssumption DEF IsFiniteSet, LBP!IsFiniteSet
<1> QED  BY <1>1, FeedbackAssumption DEF LBP!LBAssumption

\* The operators of the choice under the names of both instances.
LEMMA SameOperators ==
  ASSUME NEW load
  PROVE  /\ \A S : /\ LB(load)!Max(S) = LBP!Max(S)
                   /\ LB(load)!Min(S) = LBP!Min(S)
                   /\ LB(load)!Cardinality(S) = Cardinality(S)
                   /\ IsFiniteSet(S) => LBP!IsFiniteSet(S)
         /\ LB(load)!CandidateNum = CandidateNum
<1>1. \A S : LB(load)!Max(S) = LBP!Max(S)
  BY Zenon DEF LB!Max, LBP!Max
<1>2. \A S : LB(load)!Min(S) = LBP!Min(S)
  BY Zenon DEF LB!Min, LBP!Min
<1>3. \A S : LB(load)!Cardinality(S) = Cardinality(S)
  BY Zenon DEF LB!Cardinality, Cardinality
<1>4. \A S : IsFiniteSet(S) => LBP!IsFiniteSet(S)
  BY DEF IsFiniteSet, LBP!IsFiniteSet
<1>5. LB(load)!CandidateNum = CandidateNum
  BY Zenon DEF CandidateNum, LB!CandidateNum, LB!Max, LB!Min, LB!Cardinality
<1> QED  BY <1>1, <1>2, <1>3, <1>4, <1>5

Loads == [Host -> [queued : Nat, prompt : Nat]]

LEMMA LoadQuantities ==
  ASSUME NEW load \in Loads
  PROVE  /\ LB(load)!MinQueue \in Int
         /\ LB(load)!MaxPrompt \in Nat \ {0}
         /\ LB(load)!Delta \in Nat \ {0}
         /\ LB(load)!DynamicRequestWeight \in Nat \ {0}
<1> DEFINE g == [h \in Host |-> load[h].queued]
           p == [h \in Host |-> load[h].prompt]
           queues == {g[h] : h \in Host}
           prompts == {p[h] : h \in Host}
<1>1. g \in [Host -> Int] /\ p \in [Host -> Int] /\ queues # {}
  BY FeedbackAssumption DEF Loads
<1>2. /\ queues = {LB(load)!Queued(h) : h \in Host}
      /\ prompts = {LB(load)!PromptLength(h) : h \in Host}
  BY DEF LB!Queued, LB!PromptLength
<1> HIDE DEF g, p
<1>3. /\ queues \in SUBSET Int /\ LBP!IsFiniteSet(queues)
      /\ prompts \in SUBSET Int /\ LBP!IsFiniteSet(prompts)
  BY <1>1, ScoreConstants, LBP!ImageFinite
<1> HIDE DEF queues, prompts
<1>4. LB(load)!MinQueue \in Int
  <2>1. LBP!Min(queues) \in Int
    BY <1>1, <1>3, ScoreConstants, LBP!MaxMin
  <2> QED  BY <1>2, <2>1, SameOperators DEF LB!MinQueue
<1>5. ASSUME NEW S \in SUBSET Int, LBP!IsFiniteSet(S), NEW n \in Int
      PROVE  LBP!Max(S \cup {n}) \in Int /\ n =< LBP!Max(S \cup {n})
  <2>1. IsFiniteSet(S)
    BY <1>5 DEF IsFiniteSet, LBP!IsFiniteSet
  <2>2. LBP!IsFiniteSet(S \cup {n})
    BY <2>1, FS_AddElement, SameOperators
  <2> QED  BY <2>2, ScoreConstants, LBP!MaxMin
<1>6. LB(load)!MaxQueue \in Int
  <2>1. LBP!Max(queues \cup {0}) \in Int
    BY <1>3, <1>5
  <2> QED  BY <1>2, <2>1, SameOperators DEF LB!MaxQueue
<1>7. LB(load)!MaxPrompt \in Nat \ {0}
  <2>1. LBP!Max(prompts \cup {MinPromptLength}) \in Nat \ {0}
    BY <1>3, <1>5, FeedbackAssumption
  <2> QED  BY <1>2, <2>1, SameOperators DEF LB!MaxPrompt
<1>8. LB(load)!Delta \in Nat \ {0}
  <2> DEFINE width == LB(load)!MaxQueue - LB(load)!MinQueue
  <2>1. width \in Int
    BY <1>4, <1>6
  <2> HIDE DEF width
  <2>2. LBP!Max({2, width}) \in Nat \ {0}
    BY <2>1, ScoreConstants, LBP!MaxMinPair
  <2> QED  BY <2>2, SameOperators DEF LB!Delta, width
<1>9. LB(load)!DynamicRequestWeight \in Nat \ {0}
  <2> DEFINE steps == (LB(load)!Delta + 4) \div 5
  <2>1. steps \in Nat \ {0}
    BY <1>8
  <2> HIDE DEF steps
  <2>2. RequestLoadWeight * steps \in Nat \ {0}
    BY <2>1, FeedbackAssumption, ScoreConstants, LBP!ProductPositive
  <2> QED  BY <2>2 DEF LB!DynamicRequestWeight, steps
<1> QED  BY <1>4, <1>7, <1>8, <1>9

\* Scores are integers.
LEMMA ScoreTypes ==
  ASSUME NEW load \in Loads, NEW h \in Host
  PROVE  LB(load)!Score(h) \in Int
<1> DEFINE D == LB(load)!Delta
           M == LB(load)!MaxPrompt
           W == LB(load)!DynamicRequestWeight
           Q == load[h].queued - LB(load)!MinQueue
<1>1. /\ D \in Nat /\ M \in Nat /\ W \in Nat /\ PrefillLoadWeight \in Nat
      /\ Q \in Int /\ load[h].prompt \in Nat
  BY LoadQuantities, FeedbackAssumption DEF Loads
<1>2. LB(load)!Score(h) = 0 * 0 * D * M - W * Q * 1 * M
                          - PrefillLoadWeight * load[h].prompt * 1 * D
  BY DEF LB!Score, LB!Queued, LB!PromptLength
<1> HIDE DEF D, M, W, Q
<1>3. 0 * 0 * D * M \in Int /\ W * Q * 1 * M \in Int
      /\ PrefillLoadWeight * load[h].prompt * 1 * D \in Int
  BY <1>1
<1> QED  BY <1>2, <1>3

\* A host with less load scores higher.
LEMMA LessLoadScoresHigher ==
  ASSUME NEW load \in Loads, NEW a \in Host, NEW b \in Host,
         load[a].queued =< load[b].queued, load[a].prompt =< load[b].prompt,
         load[a].queued < load[b].queued \/ load[a].prompt < load[b].prompt
  PROVE  LB(load)!Score(a) > LB(load)!Score(b)
<1> DEFINE D == LB(load)!Delta
           M == LB(load)!MaxPrompt
           W == LB(load)!DynamicRequestWeight
           Q(h) == load[h].queued - LB(load)!MinQueue
           queueTerm(h) == W * Q(h) * 1 * M
           promptTerm(h) == PrefillLoadWeight * load[h].prompt * 1 * D
<1>1. /\ D \in Nat \ {0} /\ M \in Nat \ {0} /\ W \in Nat \ {0}
      /\ PrefillLoadWeight \in Nat \ {0} /\ 1 \in Nat \ {0}
      /\ LB(load)!MinQueue \in Int
      /\ \A h \in Host : load[h].queued \in Nat /\ load[h].prompt \in Nat
  BY LoadQuantities, FeedbackAssumption DEF Loads
<1>2. \A h \in Host : LB(load)!Score(h) = 0 * 0 * D * M - queueTerm(h) - promptTerm(h)
  BY DEF LB!Score, LB!Queued, LB!PromptLength
<1>3. /\ Q(a) \in Int /\ Q(b) \in Int /\ Q(a) =< Q(b)
      /\ load[a].queued < load[b].queued => Q(a) < Q(b)
  BY <1>1
<1> HIDE DEF D, M, W, Q
<1>4. /\ queueTerm(a) \in Int /\ queueTerm(b) \in Int /\ queueTerm(a) =< queueTerm(b)
      /\ load[a].queued < load[b].queued => queueTerm(a) < queueTerm(b)
  BY <1>1, <1>3, ScoreConstants, LBP!TermMonotone
<1>5. /\ promptTerm(a) \in Int /\ promptTerm(b) \in Int /\ promptTerm(a) =< promptTerm(b)
      /\ load[a].prompt < load[b].prompt => promptTerm(a) < promptTerm(b)
  BY <1>1, ScoreConstants, LBP!TermMonotone
<1>6. 0 * 0 * D * M = 0
  BY <1>1
<1> HIDE DEF queueTerm, promptTerm
<1> QED  BY <1>2, <1>4, <1>5, <1>6

\* What a request was told ranks a host that is clearly better above another.
LEMMA ClearlyBetterWasTold ==
  ASSUME LInv, NEW r \in Request, seen[r] # NoAnswer,
         NEW a \in Host, NEW b \in Host, ClearlyBetter(r, a, b)
  PROVE  LB(seen[r])!Score(a) > LB(seen[r])!Score(b)
<1>0. TypeOK /\ Told(r, a) /\ Told(r, b)
  BY DEF LInv, DInv, Snapshot
<1>1. blind[r] \in SUBSET Request /\ seen[r] \in Loads
  BY <1>0 DEF TypeOK, Loads
<1>2. ASSUME NEW h \in Host, NEW stages
      PROVE  /\ Cardinality(On(h, stages)) \in Nat
             /\ Cardinality(Steady(r, h, stages)) \in Nat
             /\ Cardinality(Unseen(r, h)) \in Nat
             /\ Between(Cardinality(On(h, stages)), Steady(r, h, stages), Unseen(r, h))
  <2>1. /\ Steady(r, h, stages) \in SUBSET Request /\ Unseen(r, h) \in SUBSET Request
        /\ On(h, stages) \in SUBSET Request
        /\ Steady(r, h, stages) \subseteq On(h, stages)
        /\ On(h, stages) \subseteq Steady(r, h, stages) \cup Unseen(r, h)
    BY <1>1 DEF Steady, Unseen, On
  <2> QED  BY <2>1, SetsBetween, CountsAreNaturals, FeedbackAssumption
<1>3. ASSUME NEW h \in Host
      PROVE  /\ Running(h) = Cardinality(On(h, {"prefill", "decode"}))
             /\ Prefilling(h) = Cardinality(On(h, {"prefill"}))
             /\ Unknown(r, h) = Cardinality(Unseen(r, h))
  <2>1. /\ On(h, {"prefill", "decode"}) = {q \in Request : host[q] = h /\ Standing(q) # "absent"}
        /\ On(h, {"prefill"}) = {q \in Request : host[q] = h /\ Standing(q) = "prefill"}
    BY DEF On, Standing
  <2> QED  BY <2>1 DEF Running, Prefilling, Unknown, Unseen
\* The numbers that were told, in terms of what runs.
<1>4. ASSUME NEW h \in Host, NEW n \in Nat, NEW stages,
             Between(n, Steady(r, h, stages), Unseen(r, h))
      PROVE  /\ n =< Cardinality(On(h, stages)) + Unknown(r, h)
             /\ Cardinality(On(h, stages)) =< n + Unknown(r, h)
  BY <1>2, <1>3, <1>4 DEF Between
<1>5. ASSUME NEW na \in Nat, NEW nb \in Nat, NEW stages,
             Between(na, Steady(r, a, stages), Unseen(r, a)),
             Between(nb, Steady(r, b, stages), Unseen(r, b)),
             NEW d \in Nat,
             Cardinality(On(a, stages)) + Unknown(r, a) + Unknown(r, b) + d =< Cardinality(On(b, stages))
      PROVE  na + d =< nb
  BY <1>2, <1>3, <1>4, <1>5
<1>6. seen[r][a].queued \in Nat /\ seen[r][b].queued \in Nat
      /\ seen[r][a].prompt \in Nat /\ seen[r][b].prompt \in Nat
  BY <1>1 DEF Loads
<1>7. PICK pa \in Nat, pb \in Nat :
        /\ seen[r][a].prompt = pa * Prompt /\ Between(pa, Steady(r, a, {"prefill"}), Unseen(r, a))
        /\ seen[r][b].prompt = pb * Prompt /\ Between(pb, Steady(r, b, {"prefill"}), Unseen(r, b))
  BY <1>0 DEF Told
<1>8. /\ Unknown(r, a) \in Nat /\ Unknown(r, b) \in Nat
      /\ Running(a) \in Nat /\ Running(b) \in Nat
      /\ Prefilling(a) \in Nat /\ Prefilling(b) \in Nat
  BY <1>2, <1>3
<1>9. /\ Running(a) + Unknown(r, a) + Unknown(r, b) + 0 =< Running(b)
      /\ Prefilling(a) + Unknown(r, a) + Unknown(r, b) + 0 =< Prefilling(b)
      /\ \/ Running(a) + Unknown(r, a) + Unknown(r, b) + 1 =< Running(b)
         \/ Prefilling(a) + Unknown(r, a) + Unknown(r, b) + 1 =< Prefilling(b)
  BY <1>8 DEF ClearlyBetter
<1>10. /\ seen[r][a].queued =< seen[r][b].queued
       /\ pa =< pb
       /\ seen[r][a].queued < seen[r][b].queued \/ pa < pb
  <2> DEFINE both == {"prefill", "decode"}
             one == {"prefill"}
             qa == seen[r][a].queued
             qb == seen[r][b].queued
  <2>1. Between(qa, Steady(r, a, both), Unseen(r, a)) /\ Between(qb, Steady(r, b, both), Unseen(r, b))
    BY <1>0 DEF Told
  <2> HIDE DEF both, one, qa, qb
  <2>2. qa \in Nat /\ qb \in Nat
    BY <1>6 DEF qa, qb
  <2>3. ASSUME NEW d \in Nat, Running(a) + Unknown(r, a) + Unknown(r, b) + d =< Running(b)
        PROVE  qa + d =< qb
    <3>1. Running(a) = Cardinality(On(a, both)) /\ Running(b) = Cardinality(On(b, both))
      BY <1>3 DEF both
    <3> QED  BY <1>5, <2>1, <2>2, <2>3, <3>1
  <2>4. ASSUME NEW d \in Nat, Prefilling(a) + Unknown(r, a) + Unknown(r, b) + d =< Prefilling(b)
        PROVE  pa + d =< pb
    <3>1. Prefilling(a) = Cardinality(On(a, one)) /\ Prefilling(b) = Cardinality(On(b, one))
      BY <1>3 DEF one
    <3> QED  BY <1>5, <1>7, <2>4, <3>1 DEF one
  <2>5. qa + 0 =< qb /\ pa + 0 =< pb
    BY <1>9, <2>3, <2>4
  <2>6. qa + 1 =< qb \/ pa + 1 =< pb
    BY <1>9, <2>3, <2>4
  <2>7. qa =< qb /\ pa =< pb /\ (qa < qb \/ pa < pb)
    BY <2>2, <2>5, <2>6
  <2> QED  BY <2>7 DEF qa, qb
<1>11. /\ pa * Prompt =< pb * Prompt
       /\ pa < pb => pa * Prompt < pb * Prompt
  <2>1. Prompt \in Nat \ {0}
    BY FeedbackAssumption
  <2>2. pa * Prompt =< pb * Prompt
    BY <1>10, <2>1, ScoreConstants, LBP!ProductMonotone
  <2>3. ASSUME pa < pb  PROVE pa * Prompt < pb * Prompt
    <3>1. (pa + 1) * Prompt =< pb * Prompt
      BY <2>1, <2>3, ScoreConstants, LBP!ProductMonotone
    <3>2. (pa + 1) * Prompt = pa * Prompt + Prompt
      BY <2>1
    <3>3. pa * Prompt \in Nat /\ pb * Prompt \in Nat
      BY <2>1
    <3> QED  BY <2>1, <3>1, <3>2, <3>3
  <2> QED  BY <2>2, <2>3
<1>12. /\ seen[r][a].prompt =< seen[r][b].prompt
       /\ pa < pb => seen[r][a].prompt < seen[r][b].prompt
  BY <1>7, <1>11
<1> QED  BY <1>1, <1>10, <1>12, LessLoadScoresHigher

\* The step that chooses: the hosts that are clearly better are candidates too.
LEMMA ChoiceInTheHerd ==
  ASSUME LInv, NEW r \in Request, Choose(r), seen[r] # NoAnswer
  PROVE  Cardinality({a \in Host : ClearlyBetter(r, a, host'[r])}) < CandidateNum
<1>0. TypeOK /\ seen[r] \in Loads
  BY DEF LInv, DInv, TypeOK, Loads
<1>1. PICK top \in LB(seen[r])!TopCandidates(CandidateNum) :
        \E h \in top : host' = [host EXCEPT ![r] = h]
  BY DEF Choose, Candidates
<1>2. PICK h \in top : host' = [host EXCEPT ![r] = h]
  BY <1>1
<1>3. /\ top \in SUBSET Host /\ Cardinality(top) = CandidateNum
      /\ \A a \in top, b \in Host \ top : LB(seen[r])!Score(a) >= LB(seen[r])!Score(b)
  BY SameOperators DEF LB!TopCandidates
<1>4. host'[r] = h /\ h \in Host
  BY <1>0, <1>2, <1>3 DEF TypeOK
<1> DEFINE better == {a \in Host : ClearlyBetter(r, a, h)}
<1>5. \A a \in better : LB(seen[r])!Score(a) > LB(seen[r])!Score(h)
  BY <1>4, ClearlyBetterWasTold
<1>6. ASSUME NEW a \in better  PROVE a \in top \ {h}
  <2>1. LB(seen[r])!Score(a) \in Int /\ LB(seen[r])!Score(h) \in Int
    BY <1>0, <1>4, ScoreTypes
  <2> QED  BY <1>2, <1>3, <1>5, <2>1
<1>7. IsFiniteSet(top) /\ Cardinality(top) \in Nat
  BY <1>3, FeedbackAssumption, CountsAreNaturals
<1>8. IsFiniteSet(top \ {h}) /\ Cardinality(top \ {h}) = Cardinality(top) - 1
  BY <1>2, <1>7, FS_RemoveElement
<1>9. Cardinality(better) =< Cardinality(top \ {h}) /\ Cardinality(better) \in Nat
  BY <1>6, <1>8, FS_Subset, FS_CardinalityType
<1> QED  BY <1>3, <1>4, <1>7, <1>8, <1>9

\* For any number of requests and hosts, and any percentage and weights: none
\* takes a host when CandidateNum others are better by more than the requests
\* that were not settled when it asked, or moved on since.
THEOREM HerdIsBounded == Spec => HerdIsWhatIsInFlight
<1>1. Init => LInv
  BY InitDInv, InitSnapshot DEF LInv
<1>2. LInv /\ [Next]_vars => LInv'
  BY NextDInv, NextSnapshot DEF LInv
<1> DEFINE Bounded(r) == stage[r] = "asked" /\ stage'[r] = "prefill" /\ seen[r] # NoAnswer =>
               Cardinality({a \in Host : ClearlyBetter(r, a, host'[r])}) < CandidateNum
<1>3. LInv /\ [Next]_vars => [\A r \in Request : Bounded(r)]_vars
  <2> SUFFICES ASSUME LInv, [Next]_vars, ~UNCHANGED vars, NEW r \in Request,
                      stage[r] = "asked", stage'[r] = "prefill", seen[r] # NoAnswer
               PROVE  Cardinality({a \in Host : ClearlyBetter(r, a, host'[r])}) < CandidateNum
    OBVIOUS
  <2>1. Choose(r)
    <3>1. TypeOK
      BY DEF LInv, DInv
    <3>2. ASSUME NEW x \in Request, AskLoad(x) \/ FirstToken(x) \/ Destroy(x)  PROVE FALSE
      BY <3>1, <3>2 DEF AskLoad, FirstToken, Destroy, TypeOK
    <3>3. ASSUME NEW x \in Request, Choose(x)  PROVE x = r
      BY <3>1, <3>3 DEF Choose, TypeOK
    <3>4. ASSUME NEW u \in inFlight, Serve(u) \/ Lose(u)  PROVE FALSE
      BY <3>4 DEF Serve, Lose, requestVars
    <3> QED  BY <3>2, <3>3, <3>4 DEF Next
  <2> QED  BY <2>1, ChoiceInTheHerd
<1> QED  BY <1>1, <1>2, <1>3, PTL DEF Spec, HerdIsWhatIsInFlight
=============================================================================
