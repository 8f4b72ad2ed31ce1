--------------------------- MODULE MCInferenceLB ----------------------------
\* Three hosts; queues and prompts on both sides of every threshold of the
\* score: negative, zero, the weight step at five, the prompt floor.
EXTENDS InferenceLB

CONSTANTS h1, h2, h3

MCHost == {h1, h2, h3}
MCReported == [queued : {-1, 1, 6, 11}, prompt : {-1, 4}] \cup {[queued |-> 0, prompt |-> 1]}
MCPercents == {0, 70, 150}
=============================================================================
