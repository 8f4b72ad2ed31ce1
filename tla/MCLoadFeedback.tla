--------------------------- MODULE MCLoadFeedback --------------------------
\* Four requests on two hosts, one of which is the candidate at a time.
EXTENDS LoadFeedback, TLC

CONSTANTS r1, r2, r3, r4, h1, h2

MCRequest == {r1, r2, r3, r4}
MCHost == {h1, h2}
Symmetry == Permutations(MCRequest) \cup Permutations(MCHost)
=============================================================================
