----------------------------- MODULE InferenceLB ----------------------------
(***************************************************************************)
(* pkg/loadbalancer: the choice of a host for one request, from the load   *)
(* and the cache locations that Metadata-Center reports.  Either query may *)
(* fail.  A report may lack hosts, and its counters may be negative: the   *)
(* service only sums up the updates that reach it.                         *)
(*                                                                         *)
(* Scores are compared over their common denominator instead of as         *)
(* float64.  The sort is not stable, so any order of equal scores is       *)
(* possible, and so is any random pick.                                    *)
(***************************************************************************)
EXTENDS Integers, FiniteSets, FiniteSetsExt

CONSTANTS Host,              \* the hosts of the cluster
          Reported,          \* the [queued, prompt] counters a host may have
          Absent,            \* the host is not in the service's answer
          NoHost,
          HashCount,         \* the number of hashed blocks of the prompt
          CacheRadioWeight, RequestLoadWeight, PrefillLoadWeight,
          Percents,          \* the candidate percentages of the rules
          MinPromptLength    \* the floor of the largest prompt length: 1024

ASSUME LBAssumption ==
    /\ IsFiniteSet(Host) /\ Host # {}     \* ChooseServer refuses an empty list
    /\ Reported \subseteq [queued : Int, prompt : Int]
    /\ Absent \notin Reported /\ NoHost \notin Host
    /\ HashCount \in Nat \ {0} /\ MinPromptLength \in Nat \ {0}
    /\ CacheRadioWeight \in Nat /\ RequestLoadWeight \in Nat /\ PrefillLoadWeight \in Nat
    /\ Percents \subseteq Nat

VARIABLES step,        \* where ChooseHost stands
          percent,     \* the rule's candidate percentage
          stats,       \* the load the choice is based on
          cacheHits,   \* how many of the prompt's blocks each host has cached
          candidates,  \* the hosts the random pick is made from
          chosen

vars == <<step, percent, stats, cacheHits, candidates, chosen>>

NoLoad == [queued |-> 0, prompt |-> 0]
NoHits == [h \in Host |-> 0]

Init ==
    /\ step = "start"
    /\ percent \in Percents
    /\ stats = [h \in Host |-> NoLoad]
    /\ cacheHits = NoHits
    /\ candidates = {}
    /\ chosen = NoHost

-----------------------------------------------------------------------------
\* Mutant: a small percentage of few hosts is none of them.
CandidateShare == (Cardinality(Host) * percent) \div 100

\* candidateNumFromContext: at least one, at most all.
CandidateNum ==
    LET share == (Cardinality(Host) * percent) \div 100
    IN Min({Max({share, 1}), Cardinality(Host)})

Queued(h) == stats[h].queued
PromptLength(h) == stats[h].prompt

\* mergeStatsAndScore: the ranges of the counters; the largest queue starts at
\* zero and the largest prompt at its floor.
MinQueue == Min({Queued(h) : h \in Host})
MaxQueue == Max({Queued(h) : h \in Host} \cup {0})
MaxPrompt == Max({PromptLength(h) : h \in Host} \cup {MinPromptLength})
Delta == Max({2, MaxQueue - MinQueue})

\* Mutant: integer division instead of math.Ceil.
FlooredRequestWeight == RequestLoadWeight * (Delta \div 5)

\* math.Ceil(delta/5) times the configured weight.
DynamicRequestWeight == RequestLoadWeight * ((Delta + 4) \div 5)

\* The score of a host, times HashCount * Delta * MaxPrompt.
Score(h) ==
      CacheRadioWeight * cacheHits[h] * Delta * MaxPrompt
    - DynamicRequestWeight * (Queued(h) - MinQueue) * HashCount * MaxPrompt
    - PrefillLoadWeight * PromptLength(h) * HashCount * Delta

\* Mutant: an ascending sort.
BottomCandidates(n) ==
    {top \in SUBSET Host :
        /\ Cardinality(top) = n
        /\ \A a \in top, b \in Host \ top : Score(a) <= Score(b)}

\* The hosts that a descending sort by score may put first.
TopCandidates(n) ==
    {top \in SUBSET Host :
        /\ Cardinality(top) = n
        /\ \A a \in top, b \in Host \ top : Score(a) >= Score(b)}

-----------------------------------------------------------------------------
\* A rule that is not load-aware: any host.
ChooseAtRandom ==
    /\ step = "start"
    /\ candidates' = Host
    /\ step' = "pick"
    /\ UNCHANGED <<percent, stats, cacheHits, chosen>>

\* QueryLoad fails or is disabled: all the hosts stay candidates.
QueryLoadFails ==
    /\ step = "start"
    /\ candidates' = Host
    /\ step' = "pick"
    /\ UNCHANGED <<percent, stats, cacheHits, chosen>>

\* Mutant: a negative prompt length stays.
Unclamped(n) == n

\* A negative prompt length counts as zero.
Clamped(n) == Max({0, n})

\* QueryLoad and getEndpointStats: an absent host has no load,
\* a negative queue stays.
QueryLoad(report) ==
    /\ step = "start"
    /\ stats' = [h \in Host |->
          IF report[h] = Absent THEN NoLoad
          ELSE [queued |-> report[h].queued, prompt |-> Clamped(report[h].prompt)]]
    /\ step' = "cache"
    /\ UNCHANGED <<percent, cacheHits, candidates, chosen>>

\* getCacheStats: not cache-aware, an empty prompt or a failed query leave all
\* hit rates at zero; otherwise the answer gives the length of each hit.
QueryKVCache(hits) ==
    /\ step = "cache"
    /\ cacheHits' = hits
    /\ step' = "score"
    /\ UNCHANGED <<percent, stats, candidates, chosen>>

\* Scores, sort, and the first CandidateNum hosts.
SelectCandidates ==
    /\ step = "score"
    /\ candidates' \in TopCandidates(CandidateNum)
    /\ step' = "pick"
    /\ UNCHANGED <<percent, stats, cacheHits, chosen>>

\* chooseFromCandidates: a random one, or nil when there is none.
ChooseFromCandidates ==
    /\ step = "pick"
    /\ chosen' \in IF candidates = {} THEN {NoHost} ELSE candidates
    /\ step' = "done"
    /\ UNCHANGED <<percent, stats, cacheHits, candidates>>

Next ==
    \/ ChooseAtRandom
    \/ QueryLoadFails
    \/ \E report \in [Host -> Reported \cup {Absent}] : QueryLoad(report)
    \/ QueryKVCache(NoHits)
    \/ \E hits \in [Host -> 0..HashCount] : QueryKVCache(hits)
    \/ SelectCandidates
    \/ ChooseFromCandidates

Spec == Init /\ [][Next]_vars

-----------------------------------------------------------------------------
\* The types of a choice's state.
TypeOK ==
    /\ step \in {"start", "cache", "score", "pick", "done"}
    /\ percent \in Percents
    /\ stats \in [Host -> [queued : Int, prompt : Nat]]
    /\ cacheHits \in [Host -> 0..HashCount]
    /\ candidates \subseteq Host
    /\ chosen \in Host \cup {NoHost}

\* Host a is nowhere worse than host b, and somewhere better by its weight.
Dominates(a, b) ==
    /\ Queued(a) <= Queued(b) /\ PromptLength(a) <= PromptLength(b)
    /\ cacheHits[a] >= cacheHits[b]
    /\ \/ Queued(a) < Queued(b) /\ RequestLoadWeight > 0
       \/ PromptLength(a) < PromptLength(b) /\ PrefillLoadWeight > 0
       \/ cacheHits[a] > cacheHits[b] /\ CacheRadioWeight > 0

Scored == step = "pick" /\ candidates # Host

\* A host never makes it into the candidates past one that is better in every
\* respect, whatever counters the service reports, negative ones included:
\* the normalisation, the dynamic weight and the sort keep the order of load.
NoDominatedCandidate ==
    Scored => \A b \in candidates, a \in Host \ candidates : ~Dominates(a, b)

\* Neither a failing service nor its strangest answer leaves a request
\* without a host, and the candidates are never more than the percentage.
AlwaysAHost ==
    /\ step = "pick" => candidates # {}
    /\ Scored => Cardinality(candidates) * 100 <= Max({100, Cardinality(Host) * percent})
    /\ step = "done" => chosen \in candidates

\* Cache affinity cannot pin requests to an overloaded host: when the queues
\* differ by more than five requests per unit of the cache weight, the busiest
\* host is no candidate ahead of the least busy one unless it has less prompt
\* work, even if it has cached the whole prompt.
OverloadBeatsCache ==
    Scored /\ RequestLoadWeight > 0 /\ Delta > 5 * CacheRadioWeight =>
        \A b \in candidates, a \in Host \ candidates :
            Queued(b) = MinQueue + Delta /\ Queued(a) = MinQueue =>
                PromptLength(b) < PromptLength(a)
=============================================================================
