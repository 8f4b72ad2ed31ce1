------------------------------ MODULE MCFilter ------------------------------
\* One request, with three workers and no buffer: the queue may accept or drop
\* each of its tasks, so every mix of lost and accepted tasks is met.
EXTENDS Filter

CONSTANTS r1, h1, w1, w2, w3

MCRequest == {r1}
MCWorker == {w1, w2, w3}
MCKinds == [stream : BOOLEAN, loadAware : BOOLEAN, hashed : BOOLEAN]
MCChunks == [last : BOOLEAN, error : BOOLEAN]
MCHostLists == {{}, {h1}}
=============================================================================
