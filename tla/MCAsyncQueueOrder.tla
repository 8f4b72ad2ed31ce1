------------------------- MODULE MCAsyncQueueOrder --------------------------
\* Four tasks, two workers and a buffer of two: the buffer can fill up, and
\* tasks be dropped, while the workers are still on their way to it.
EXTENDS AsyncQueueOrder

CONSTANTS t1, t2, t3, t4, w1, w2

MCTask == {t1, t2, t3, t4}
MCWorker == {w1, w2}
=============================================================================
