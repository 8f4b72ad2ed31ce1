-------------------------- MODULE MCMetadataClient --------------------------
\* Callers that start together, fewer connections than callers, one worker.
EXTENDS MetadataClient

CONSTANTS c1, c2, c3

MCCaller == {c1, c2, c3}

\* One that queries and two that update; one of each kind.
MCWants ==
    LET Want(a, b, c) == [x \in MCCaller |-> CASE x = c1 -> a [] x = c2 -> b [] x = c3 -> c]
    IN  {Want("query", "update", "update"), Want("query", "update", "cache")}
=============================================================================
