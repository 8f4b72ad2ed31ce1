-------------------------- MODULE MCLoadAccounting --------------------------
\* One request of any kind whose tasks fill a queue of one task and one worker;
\* two workers for what a pool of them does to the order.
EXTENDS LoadAccounting

CONSTANTS r1, h1, w1, w2

MCRequest == {r1}
MCOneWorker == {w1}
MCTwoWorkers == {w1, w2}
MCChunks == [last : BOOLEAN, error : {FALSE}]
MCHostLists == {{h1}}
MCKinds == [stream : BOOLEAN, loadAware : {TRUE}, hashed : BOOLEAN]
=============================================================================
