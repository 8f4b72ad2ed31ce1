-------------------------- MODULE ServiceCallProofs -------------------------
(***************************************************************************)
(* Proofs about ServiceCall, for any calls, clients and limit: types       *)
(* (CallTypeOK), the limit of the connections (PoolBound), and that every  *)
(* step is one that RemoteCall allows.                                     *)
(***************************************************************************)
EXTENDS ServiceCall, FiniteSetTheorems, TLAPS

\* How far the service can be with a call.
ServiceOK ==
    /\ \A c \in Call : phase[c] \in {"new", "waiting"} => service[c] = "nothing"
    /\ \A c \in Call : phase[c] = "accepted" => service[c] = "acted"

CallInv == CallTypeOK /\ ServiceOK

LEMMA CallInit == ASSUME CallAssumption, Init  PROVE CallInv
  BY DEF CallAssumption, Init, CallInv, CallTypeOK, ServiceOK, Phases

-----------------------------------------------------------------------------
LEMMA TypesKept ==
  ASSUME CallAssumption, CallInv, [Next]_callVars
  PROVE  CallInv'
<1> USE DEF CallAssumption, CallInv, CallTypeOK, ServiceOK, Phases
<1>1. ASSUME NEW c \in Call, NEW k \in Client, Begin(c, k)  PROVE CallInv'
  BY <1>1 DEF Begin, Become
<1>2. ASSUME NEW c \in Call, Reuse(c) \/ Dial(c)  PROVE CallInv'
  <2>1. pool[c] \in Client
    BY <1>2 DEF Reuse, Dial
  <2>2. idle' \in [Client -> Nat]
    BY <1>2, <2>1 DEF Reuse, Dial
  <2> QED  BY <1>2, <2>2 DEF Reuse, Dial, Send, Become
<1>3. ASSUME NEW c \in Call, Act(c) \/ Answer(c) \/ GiveUp(c) \/ CloseBroken(c)
      PROVE  CallInv'
  BY <1>3 DEF Act, Answer, GiveUp, CloseBroken, Become
<1>4. ASSUME NEW c \in Call, ReadAnswer(c)  PROVE CallInv'
  BY <1>4 DEF ReadAnswer, Become
<1>5. ASSUME NEW k \in Client, CloseIdle(k)  PROVE CallInv'
  BY <1>5 DEF CloseIdle
<1>6. CASE UNCHANGED callVars
  BY <1>6 DEF callVars
<1> QED  BY <1>1, <1>2, <1>3, <1>4, <1>5, <1>6 DEF Next, CallStep, Proceed

\* The state of the calls keeps its types.
THEOREM CallTypes == ASSUME CallAssumption  PROVE Spec => []CallTypeOK
<1>1. Init => CallInv
  BY CallInit
<1>2. CallInv /\ [Next]_callVars => CallInv'
  BY TypesKept
<1>3. CallInv => CallTypeOK
  BY DEF CallInv
<1> QED  BY <1>1, <1>2, <1>3, PTL DEF Spec

-----------------------------------------------------------------------------
\* The busy connections of a client are finitely many.
LEMMA BusyFinite ==
  ASSUME CallAssumption, CallTypeOK, NEW k \in Client
  PROVE  IsFiniteSet(BusyOf(k)) /\ Cardinality(BusyOf(k)) \in Nat
<1>1. BusyOf(k) \subseteq Call
  BY DEF CallTypeOK, BusyOf
<1> QED  BY <1>1, FS_Subset, FS_CardinalityType DEF CallAssumption

LEMMA BoundKept ==
  ASSUME CallAssumption, CallInv, PoolBound, [Next]_callVars
  PROVE  PoolBound'
<1> USE DEF CallAssumption
<1>t. CallTypeOK /\ CallTypeOK'
  BY TypesKept DEF CallInv
<1> SUFFICES ASSUME NEW k \in Client  PROVE Connections(k)' =< MaxConns
  BY DEF PoolBound
<1>n. /\ IsFiniteSet(BusyOf(k)) /\ Cardinality(BusyOf(k)) \in Nat
      /\ idle[k] \in Nat /\ idle'[k] \in Nat
      /\ Connections(k) =< MaxConns
  BY <1>t, BusyFinite DEF CallTypeOK, PoolBound
<1>0. ASSUME BusyOf(k)' = BusyOf(k), idle'[k] =< idle[k]
      PROVE  Connections(k)' =< MaxConns
  BY <1>0, <1>n DEF Connections
<1>1. ASSUME NEW c \in Call, NEW d \in Client, Begin(c, d)
      PROVE  Connections(k)' =< MaxConns
  <2>1. c \notin busy
    BY <1>1, <1>t DEF Begin, CallTypeOK
  <2> QED  BY <1>0, <1>1, <1>n, <1>t, <2>1 DEF Begin, BusyOf, CallTypeOK
<1>2. ASSUME NEW c \in Call, Reuse(c) \/ Dial(c)
      PROVE  Connections(k)' =< MaxConns
  <2>1. pool[c] \in Client /\ c \notin busy
    BY <1>2, <1>t DEF Reuse, Dial, CallTypeOK
  <2>2. CASE pool[c] # k
    BY <1>0, <1>2, <1>n, <1>t, <2>1, <2>2 DEF Reuse, Dial, Send, BusyOf, CallTypeOK
  <2>3. CASE pool[c] = k
    <3>1. BusyOf(k)' = BusyOf(k) \cup {c} /\ c \notin BusyOf(k)
      BY <1>2, <2>1, <2>3 DEF Reuse, Dial, Send, BusyOf
    <3>2. Cardinality(BusyOf(k)') = Cardinality(BusyOf(k)) + 1
      BY <1>n, <3>1, FS_AddElement
    <3>3. \/ idle[k] > 0 /\ idle'[k] = idle[k] - 1
          \/ idle'[k] = idle[k] /\ Connections(k) < MaxConns
      BY <1>2, <1>t, <2>1, <2>3 DEF Reuse, Dial, CallTypeOK
    <3> QED  BY <1>n, <3>2, <3>3 DEF Connections
  <2> QED  BY <2>2, <2>3
<1>3. ASSUME NEW c \in Call, Act(c) \/ Answer(c) \/ GiveUp(c)
      PROVE  Connections(k)' =< MaxConns
  BY <1>0, <1>3, <1>n DEF Act, Answer, GiveUp, BusyOf
<1>4. ASSUME NEW c \in Call, ReadAnswer(c)  PROVE Connections(k)' =< MaxConns
  <2>1. pool[c] \in Client /\ c \in busy
    BY <1>4, <1>t DEF ReadAnswer, CallTypeOK
  <2>2. CASE pool[c] # k
    BY <1>0, <1>4, <1>n, <1>t, <2>1, <2>2 DEF ReadAnswer, BusyOf, CallTypeOK
  <2>3. CASE pool[c] = k
    <3>1. BusyOf(k)' = BusyOf(k) \ {c} /\ c \in BusyOf(k)
      BY <1>4, <2>1, <2>3 DEF ReadAnswer, BusyOf
    <3>2. Cardinality(BusyOf(k)') = Cardinality(BusyOf(k)) - 1
      BY <1>n, <3>1, FS_RemoveElement
    <3>3. idle'[k] = idle[k] + 1
      BY <1>4, <1>t, <2>1, <2>3 DEF ReadAnswer, CallTypeOK
    <3> QED  BY <1>n, <3>2, <3>3 DEF Connections
  <2> QED  BY <2>2, <2>3
<1>5. ASSUME NEW c \in Call, CloseBroken(c)  PROVE Connections(k)' =< MaxConns
  <2>1. BusyOf(k)' \subseteq BusyOf(k) /\ idle'[k] = idle[k]
    BY <1>5 DEF CloseBroken, BusyOf
  <2>2. Cardinality(BusyOf(k)') \in Nat /\ Cardinality(BusyOf(k)') =< Cardinality(BusyOf(k))
    BY <1>n, <2>1, FS_Subset, FS_CardinalityType
  <2> QED  BY <1>n, <2>1, <2>2 DEF Connections
<1>6. ASSUME NEW d \in Client, CloseIdle(d)  PROVE Connections(k)' =< MaxConns
  BY <1>0, <1>6, <1>n, <1>t DEF CloseIdle, BusyOf, CallTypeOK
<1>7. CASE UNCHANGED callVars
  BY <1>0, <1>7, <1>n DEF callVars, BusyOf
<1> QED  BY <1>1, <1>2, <1>3, <1>4, <1>5, <1>6, <1>7 DEF Next, CallStep, Proceed

\* No transport exceeds its limit, whatever calls time out in whatever state.
THEOREM PoolStaysBounded == ASSUME CallAssumption  PROVE Spec => []PoolBound
<1>1. Init => CallInv
  BY CallInit
<1>2. Init => PoolBound
  <2>1. Init => \A k \in Client : BusyOf(k) = {} /\ idle[k] = 0
    BY DEF Init, BusyOf
  <2> QED  BY <2>1, FS_EmptySet DEF PoolBound, Connections, CallAssumption
<1>3. CallInv /\ [Next]_callVars => CallInv'
  BY TypesKept
<1>4. CallInv /\ PoolBound /\ [Next]_callVars => PoolBound'
  BY BoundKept
<1> QED  BY <1>1, <1>2, <1>3, <1>4, PTL DEF Spec

-----------------------------------------------------------------------------
\* The refinement of RemoteCall: what changes of a call's result and effect.
Results == [c \in Call |-> Result(c)]
ActedOn == {c \in Call : service[c] = "acted"}

LEMMA InitRefines == ASSUME Init  PROVE Promise!Init
  BY DEF Init, Promise!Init, Result

\* A step that takes one call from one phase to another takes its result along.
LEMMA OneResult ==
  ASSUME CallTypeOK, NEW c \in Call, NEW p \in Phases, Become(c, p)
  PROVE  /\ p \in {"ok", "failed"} => Results' = [Results EXCEPT ![c] = p]
         /\ p \notin {"new", "ok", "failed"} => Results' = [Results EXCEPT ![c] = "pending"]
  BY DEF CallTypeOK, Become, Results, Result, Phases

LEMMA StepRefines ==
  ASSUME CallAssumption, CallInv, [Next]_callVars
  PROVE  [Promise!Next]_(Promise!vars)
<1> USE DEF CallInv
<1> DEFINE Same == Results' = Results /\ ActedOn' = ActedOn
<1>v. Promise!vars = <<Results, ActedOn>> /\ Promise!vars' = <<Results', ActedOn'>>
  BY DEF Promise!vars, Results, ActedOn
<1>s. ASSUME Same  PROVE UNCHANGED Promise!vars
  BY <1>s, <1>v
<1>1. ASSUME NEW c \in Call, NEW k \in Client, Begin(c, k)
      PROVE  Promise!Begin(c)
  <2>1. /\ Results' = [Results EXCEPT ![c] = "pending"]
        /\ Results[c] = "none"
        /\ ActedOn' = ActedOn
    BY <1>1, OneResult DEF Begin, Become, Phases, Results, Result, ActedOn
  <2> QED  BY <2>1 DEF Promise!Begin, Results, ActedOn
<1>2. ASSUME NEW c \in Call, Reuse(c) \/ Dial(c)  PROVE Same
  <2>1. phase[c] = "waiting" /\ Become(c, "sent")
    BY <1>2 DEF Reuse, Dial, Send
  <2>2. Results' = [Results EXCEPT ![c] = "pending"] /\ Results[c] = "pending"
    BY <2>1, OneResult DEF Phases, Results, Result
  <2>3. ActedOn' = ActedOn
    BY <1>2, <2>1 DEF Reuse, Dial, Send, ActedOn, ServiceOK, CallTypeOK
  <2> QED  BY <2>2, <2>3 DEF Results
<1>3. ASSUME NEW c \in Call, Act(c)  PROVE Promise!Act(c)
  <2>1. /\ Results' = Results
        /\ Results[c] # "none"
        /\ c \notin ActedOn
        /\ ActedOn' = ActedOn \cup {c}
    BY <1>3 DEF Act, Results, Result, ActedOn, CallTypeOK, ServiceOK, Phases
  <2> QED  BY <2>1 DEF Promise!Act, Results, ActedOn
<1>4. ASSUME NEW c \in Call, Answer(c)  PROVE Same
  <2>1. phase[c] = "sent" /\ (Become(c, "accepted") \/ Become(c, "refused"))
    BY <1>4 DEF Answer
  <2>2. Results' = [Results EXCEPT ![c] = "pending"] /\ Results[c] = "pending"
    BY <2>1, OneResult DEF Phases, Results, Result
  <2> QED  BY <1>4, <2>2 DEF Answer, ActedOn, Results
<1>5. ASSUME NEW c \in Call, ReadAnswer(c) \/ GiveUp(c)
      PROVE  Promise!Return(c)
  <2>1. /\ Results[c] = "pending"
        /\ ActedOn' = ActedOn
        /\ \/ phase[c] = "accepted" /\ Become(c, "ok")
           \/ Become(c, "failed")
    BY <1>5 DEF ReadAnswer, GiveUp, Results, Result, ActedOn
  <2>2. \/ c \in ActedOn /\ Results' = [Results EXCEPT ![c] = "ok"]
        \/ Results' = [Results EXCEPT ![c] = "failed"]
    BY <2>1, OneResult DEF Phases, ActedOn, ServiceOK
  <2> QED  BY <2>1, <2>2 DEF Promise!Return, Results, ActedOn
<1>6. ASSUME NEW c \in Call, CloseBroken(c)  PROVE Same
  BY <1>6 DEF CloseBroken, Results, Result, ActedOn
<1>7. ASSUME NEW k \in Client, CloseIdle(k)  PROVE Same
  BY <1>7 DEF CloseIdle, Results, Result, ActedOn
<1>8. CASE UNCHANGED callVars
  BY <1>8, <1>s DEF callVars, Results, Result, ActedOn
<1> QED
  BY <1>1, <1>2, <1>3, <1>4, <1>5, <1>6, <1>7, <1>8, <1>s
     DEF Next, CallStep, Proceed, Promise!Next

\* What a call returns and does is what RemoteCall allows: success only after
\* the service has acted, once at most, and nothing after the return but a
\* late effect. (That every call returns is PromiseKept's liveness.)
THEOREM PromiseSafe ==
  ASSUME CallAssumption
  PROVE  Spec => Promise!Init /\ [][Promise!Next]_(Promise!vars)
<1>1. Init => CallInv /\ Promise!Init
  BY CallInit, InitRefines
<1>2. CallInv /\ [Next]_callVars => CallInv'
  BY TypesKept
<1>3. CallInv /\ [Next]_callVars => [Promise!Next]_(Promise!vars)
  BY StepRefines
<1> QED  BY <1>1, <1>2, <1>3, PTL DEF Spec
=============================================================================
