----------------------------- MODULE RemoteCall -----------------------------
(***************************************************************************)
(* What a caller of Metadata-Center may rely on, and what not: a call that *)
(* succeeds has taken effect, a call that fails may have taken effect or   *)
(* may still do so, each call takes effect once at most, and each returns. *)
(* doRequest (pkg/metadata/client.go) is shown to keep this promise.       *)
(***************************************************************************)
CONSTANT Call

VARIABLES result,    \* of each call
          acted      \* the calls that the service has acted on

vars == <<result, acted>>

Init ==
    /\ result = [c \in Call |-> "none"]
    /\ acted = {}

Begin(c) ==
    /\ result[c] = "none"
    /\ result' = [result EXCEPT ![c] = "pending"]
    /\ UNCHANGED acted

\* Also after the caller has given up.
Act(c) ==
    /\ result[c] # "none" /\ c \notin acted
    /\ acted' = acted \cup {c}
    /\ UNCHANGED result

Return(c) ==
    /\ result[c] = "pending"
    /\ \/ c \in acted /\ result' = [result EXCEPT ![c] = "ok"]
       \/ result' = [result EXCEPT ![c] = "failed"]
    /\ UNCHANGED acted

Next == \E c \in Call : Begin(c) \/ Act(c) \/ Return(c)

\* The service need not act, but the call returns.
Spec == Init /\ [][Next]_vars /\ \A c \in Call : WF_vars(Return(c))
=============================================================================
