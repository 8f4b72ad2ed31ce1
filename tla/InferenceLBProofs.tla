-------------------------- MODULE InferenceLBProofs -------------------------
(***************************************************************************)
(* Proofs about InferenceLB, for any hosts, weights, percentages and       *)
(* reports of the service, negative queues included: what the scores make  *)
(* of the reported load and cache hits, and that a host is always found.   *)
(***************************************************************************)
EXTENDS InferenceLB, FiniteSetTheorems, WellFoundedInduction, TLAPS

-----------------------------------------------------------------------------
\* The least and the largest element of a set.

\* Every set of naturals that is not empty has a least element.
LEMMA LeastElement ==
  ASSUME NEW T \in SUBSET Nat, T # {}
  PROVE  \E i \in T : \A j \in T : i =< j
<1>1. IsWellFoundedOn({p \in Nat \X Nat : p[1] < p[2]}, Nat)
  BY NatLessThanWellFounded, Zenon DEF OpToRel
<1>2. PICK i \in T : \A j \in T : <<j, i>> \notin {p \in Nat \X Nat : p[1] < p[2]}
  BY <1>1, WFMin, Zenon
<1>3. \A j \in T : ~(j < i)
  BY <1>2
<1> QED  BY <1>3

\* The elements of a set by a total preorder, given as a set of pairs.
TotalOn(R, S) ==
    /\ \A x, y \in S : <<x, y>> \in R \/ <<y, x>> \in R
    /\ \A x, y, z \in S : <<x, y>> \in R /\ <<y, z>> \in R => <<x, z>> \in R

IsTop(R, S, x) == x \in S /\ \A y \in S : <<y, x>> \in R

\* A finite set has a greatest element by any such order: of the sets that have
\* none take one of least size, and take an element out of it.
LEMMA TopExists ==
  ASSUME NEW U, NEW R, TotalOn(R, U), NEW S \in SUBSET U, IsFiniteSet(S), S # {}
  PROVE  \E x : IsTop(R, S, x)
<1> DEFINE Topless(n) == \E T \in SUBSET U : /\ IsFiniteSet(T) /\ T # {} /\ Cardinality(T) = n
                                             /\ ~\E x : IsTop(R, T, x)
           Sizes == {n \in Nat : Topless(n)}
<1>1. SUFFICES ASSUME Sizes # {}  PROVE FALSE
  BY FS_CardinalityType
<1>2. PICK n \in Sizes : \A m \in Sizes : n =< m
  BY <1>1, LeastElement
<1>3. PICK T \in SUBSET U : /\ IsFiniteSet(T) /\ T # {} /\ Cardinality(T) = n
                            /\ ~\E x : IsTop(R, T, x)
  BY <1>2
<1>4. PICK x \in T : TRUE
  BY <1>3
<1> DEFINE Rest == T \ {x}
<1>5. IsFiniteSet(Rest) /\ Cardinality(Rest) = n - 1 /\ n \in Nat /\ n - 1 \in Nat
  <2>1. IsFiniteSet(Rest) /\ Cardinality(Rest) = Cardinality(T) - 1
    BY <1>3, <1>4, FS_RemoveElement
  <2>2. Cardinality(Rest) \in Nat /\ Cardinality(T) \in Nat
    BY <1>3, <2>1, FS_CardinalityType
  <2> QED  BY <1>3, <2>1, <2>2
<1>6. \A y \in T : <<y, y>> \in R
  BY DEF TotalOn
<1>7. CASE Rest = {}
  BY <1>3, <1>4, <1>6, <1>7 DEF IsTop
<1>8. CASE Rest # {}
  <2>1. n - 1 \notin Sizes
    BY <1>2, <1>5
  <2>2. PICK y : IsTop(R, Rest, y)
    BY <1>3, <1>5, <1>8, <2>1
  <2>3. CASE <<x, y>> \in R
    BY <1>3, <1>4, <2>2, <2>3 DEF IsTop
  <2>4. CASE <<y, x>> \in R
    <3>1. \A z \in T : <<z, x>> \in R
      BY <1>4, <1>6, <2>2, <2>4 DEF IsTop, TotalOn
    <3> QED  BY <1>3, <1>4, <3>1 DEF IsTop
  <2> QED  BY <1>4, <2>2, <2>3, <2>4 DEF IsTop, TotalOn
<1> QED  BY <1>7, <1>8

LEMMA MaxMin ==
  ASSUME NEW S \in SUBSET Int, IsFiniteSet(S), S # {}
  PROVE  /\ Max(S) \in S /\ \A y \in S : y =< Max(S)
         /\ Min(S) \in S /\ \A y \in S : Min(S) =< y
<1> DEFINE Up == {p \in Int \X Int : p[1] =< p[2]}
           Down == {p \in Int \X Int : p[2] =< p[1]}
<1>1. \A x, y \in Int : /\ <<x, y>> \in Up <=> x =< y
                        /\ <<x, y>> \in Down <=> y =< x
  OBVIOUS
<1> HIDE DEF Up, Down
<1>2. TotalOn(Up, Int) /\ TotalOn(Down, Int)
  BY <1>1 DEF TotalOn
<1>3. /\ \E x \in S : \A y \in S : x >= y
      /\ \E x \in S : \A y \in S : x =< y
  <2>1. PICK x : IsTop(Up, S, x)
    BY <1>2, TopExists
  <2>2. PICK z : IsTop(Down, S, z)
    BY <1>2, TopExists
  <2> QED  BY <1>1, <2>1, <2>2 DEF IsTop
<1>4. Max(S) \in S /\ \A y \in S : Max(S) >= y
  BY <1>3, Zenon DEF Max
<1>5. Min(S) \in S /\ \A y \in S : Min(S) =< y
  BY <1>3, Zenon DEF Min
<1> QED  BY <1>4, <1>5

\* The same of a set of two.
LEMMA MaxMinPair ==
  ASSUME NEW a \in Int, NEW b \in Int
  PROVE  /\ Max({a, b}) = IF a >= b THEN a ELSE b
         /\ Min({a, b}) = IF a =< b THEN a ELSE b
<1>1. IsFiniteSet({a, b}) /\ {a, b} \in SUBSET Int /\ {a, b} # {}
  <2>1. IsFiniteSet({a} \cup {b})
    BY FS_Singleton, FS_AddElement
  <2>2. {a, b} = {a} \cup {b}
    OBVIOUS
  <2> QED  BY <2>1, <2>2
<1>2. /\ Max({a, b}) \in {a, b} /\ \A y \in {a, b} : y =< Max({a, b})
      /\ Min({a, b}) \in {a, b} /\ \A y \in {a, b} : Min({a, b}) =< y
  BY <1>1, MaxMin
<1> QED  BY <1>2

\* What the hosts report is a finite set.
LEMMA ImageFinite ==
  ASSUME NEW g \in [Host -> Int]
  PROVE  {g[h] : h \in Host} \in SUBSET Int /\ IsFiniteSet({g[h] : h \in Host})
<1>1. g \in Surjection(Host, {g[h] : h \in Host})
  BY DEF Surjection
<1> QED  BY <1>1, LBAssumption, FS_Surjection

-----------------------------------------------------------------------------
\* Products of integers, for the comparison of scores.
LEMMA ProductMonotone ==
  ASSUME NEW x \in Int, NEW y \in Int, NEW c \in Nat, x =< y
  PROVE  c * x =< c * y /\ x * c =< y * c /\ c * x \in Int /\ x * c \in Int
<1>1. \A d \in Nat : c * d >= 0
  OBVIOUS
<1>2. y - x \in Nat /\ y = x + (y - x)
  OBVIOUS
<1>3. c * (y - x) >= 0
  BY <1>1, <1>2
<1>4. c * (y - x) = c * y - c * x
  OBVIOUS
<1> QED  BY <1>3, <1>4

LEMMA ProductPositive ==
  ASSUME NEW x \in Nat \ {0}, NEW y \in Nat \ {0}
  PROVE  x * y \in Nat \ {0}
  OBVIOUS

\* A term of the score grows with what it weighs, strictly if the weight is not
\* zero.
LEMMA TermMonotone ==
  ASSUME NEW w \in Nat, NEW x \in Int, NEW y \in Int,
         NEW c \in Nat \ {0}, NEW d \in Nat \ {0}
  PROVE  /\ x =< y => w * x * c * d =< w * y * c * d
         /\ x < y /\ w > 0 => w * x * c * d < w * y * c * d
         /\ w * x * c * d \in Int
<1>1. w * x \in Int /\ w * y \in Int /\ w * x * c \in Int /\ w * y * c \in Int
      /\ w * x * c * d \in Int
  OBVIOUS
<1>2. ASSUME x =< y  PROVE w * x * c * d =< w * y * c * d
  <2>1. w * x =< w * y
    BY <1>2, ProductMonotone
  <2>2. w * x * c =< w * y * c
    BY <1>1, <2>1, ProductMonotone
  <2> QED  BY <1>1, <2>2, ProductMonotone
<1>3. ASSUME x < y, w > 0  PROVE w * x * c * d < w * y * c * d
  <2>1. x + 1 =< y /\ x + 1 \in Int
    BY <1>3
  <2>2. w * (x + 1) =< w * y /\ w * (x + 1) \in Int
    BY <2>1, ProductMonotone
  <2>3. w * (x + 1) * c =< w * y * c /\ w * (x + 1) * c \in Int
    BY <1>1, <2>2, ProductMonotone
  <2>4. w * (x + 1) * c * d =< w * y * c * d
    BY <1>1, <2>3, ProductMonotone
  <2>5. w * (x + 1) * c * d = w * x * c * d + w * c * d
    <3>1. w * (x + 1) = w * x + w
      OBVIOUS
    <3>2. (w * x + w) * c = w * x * c + w * c
      BY <1>1
    <3>3. (w * x * c + w * c) * d = w * x * c * d + w * c * d
      BY <1>1
    <3> QED  BY <3>1, <3>2, <3>3
  <2>6. w * c * d \in Nat \ {0}
    BY <1>3, ProductPositive
  <2> QED  BY <1>1, <2>4, <2>5, <2>6
<1> QED  BY <1>1, <1>2, <1>3

-----------------------------------------------------------------------------
\* The quantities of a score.
StatsOK ==
    /\ stats \in [Host -> [queued : Int, prompt : Nat]]
    /\ cacheHits \in [Host -> 0..HashCount]

LEMMA Quantities ==
  ASSUME StatsOK
  PROVE  /\ \A h \in Host : /\ Queued(h) \in Int /\ PromptLength(h) \in Nat
                            /\ cacheHits[h] \in Nat /\ cacheHits[h] =< HashCount
         /\ MinQueue \in Int
         /\ MaxPrompt \in Nat \ {0}
         /\ Delta \in Nat /\ Delta >= 2
         /\ DynamicRequestWeight \in Nat
         /\ RequestLoadWeight > 0 => DynamicRequestWeight >= (Delta + 4) \div 5
         /\ RequestLoadWeight > 0 => DynamicRequestWeight > 0
<1>1. \A h \in Host : /\ Queued(h) \in Int /\ PromptLength(h) \in Nat
                       /\ cacheHits[h] \in Nat /\ cacheHits[h] =< HashCount
  BY LBAssumption DEF StatsOK, Queued, PromptLength
<1> DEFINE queues == {Queued(h) : h \in Host}
           prompts == {PromptLength(h) : h \in Host}
<1>2. queues \in SUBSET Int /\ IsFiniteSet(queues) /\ queues # {}
  <2> DEFINE g == [h \in Host |-> Queued(h)]
  <2>1. g \in [Host -> Int] /\ queues = {g[h] : h \in Host}
    BY <1>1
  <2> HIDE DEF g
  <2>2. queues \in SUBSET Int /\ IsFiniteSet(queues)
    BY <2>1, ImageFinite
  <2> QED  BY <2>2, LBAssumption
<1>3. prompts \in SUBSET Int /\ IsFiniteSet(prompts)
  <2> DEFINE g == [h \in Host |-> PromptLength(h)]
  <2>1. g \in [Host -> Int] /\ prompts = {g[h] : h \in Host}
    BY <1>1
  <2> HIDE DEF g
  <2> QED  BY <2>1, ImageFinite
<1> HIDE DEF queues, prompts
<1>4. MinQueue \in Int
  BY <1>2, MaxMin DEF MinQueue, queues
<1>5. MaxQueue \in Int
  <2>1. queues \cup {0} \in SUBSET Int /\ IsFiniteSet(queues \cup {0})
    BY <1>2, FS_AddElement
  <2>2. Max(queues \cup {0}) \in Int
    BY <2>1, MaxMin
  <2> QED  BY <2>2 DEF MaxQueue, queues
<1>6. MaxPrompt \in Nat \ {0}
  <2> DEFINE all == prompts \cup {MinPromptLength}
  <2>1. all \in SUBSET Int /\ IsFiniteSet(all) /\ MinPromptLength \in all
    BY <1>3, FS_AddElement, LBAssumption
  <2> HIDE DEF all
  <2>2. Max(all) \in Int /\ MinPromptLength =< Max(all)
    BY <2>1, MaxMin
  <2> QED  BY <2>2, LBAssumption DEF MaxPrompt, all, prompts
<1>7. Delta \in Nat /\ Delta >= 2
  <2>1. MaxQueue - MinQueue \in Int
    BY <1>4, <1>5
  <2> QED  BY <2>1, MaxMinPair DEF Delta
<1>8. DynamicRequestWeight \in Nat
      /\ (RequestLoadWeight > 0 => DynamicRequestWeight >= (Delta + 4) \div 5)
      /\ (RequestLoadWeight > 0 => DynamicRequestWeight > 0)
  <2> DEFINE steps == (Delta + 4) \div 5
  <2>1. steps \in Nat /\ steps > 0
    BY <1>7
  <2> HIDE DEF steps
  <2>2. RequestLoadWeight * steps \in Nat
    BY <2>1, LBAssumption
  <2>3. RequestLoadWeight > 0 => 1 * steps =< RequestLoadWeight * steps
    BY <2>1, LBAssumption, ProductMonotone
  <2> QED  BY <2>1, <2>2, <2>3 DEF DynamicRequestWeight, steps
<1> QED  BY <1>1, <1>4, <1>6, <1>7, <1>8

\* The three terms of a score are ordered as what they weigh.
CacheTerm(h) == CacheRadioWeight * cacheHits[h] * Delta * MaxPrompt
QueueTerm(h) == DynamicRequestWeight * (Queued(h) - MinQueue) * HashCount * MaxPrompt
PromptTerm(h) == PrefillLoadWeight * PromptLength(h) * HashCount * Delta

LEMMA Terms ==
  ASSUME StatsOK, NEW a \in Host, NEW b \in Host
  PROVE  /\ CacheTerm(a) \in Int /\ QueueTerm(a) \in Int /\ PromptTerm(a) \in Int
         /\ Score(a) = CacheTerm(a) - QueueTerm(a) - PromptTerm(a)
         /\ cacheHits[a] =< cacheHits[b] => CacheTerm(a) =< CacheTerm(b)
         /\ cacheHits[a] < cacheHits[b] /\ CacheRadioWeight > 0 => CacheTerm(a) < CacheTerm(b)
         /\ Queued(a) =< Queued(b) => QueueTerm(a) =< QueueTerm(b)
         /\ Queued(a) < Queued(b) /\ RequestLoadWeight > 0 => QueueTerm(a) < QueueTerm(b)
         /\ PromptLength(a) =< PromptLength(b) => PromptTerm(a) =< PromptTerm(b)
         /\ PromptLength(a) < PromptLength(b) /\ PrefillLoadWeight > 0 =>
                PromptTerm(a) < PromptTerm(b)
<1>1. /\ Queued(a) \in Int /\ Queued(b) \in Int /\ MinQueue \in Int
      /\ Queued(a) - MinQueue \in Int /\ Queued(b) - MinQueue \in Int
      /\ PromptLength(a) \in Int /\ PromptLength(b) \in Int
      /\ cacheHits[a] \in Int /\ cacheHits[b] \in Int
      /\ MaxPrompt \in Nat \ {0} /\ Delta \in Nat \ {0} /\ HashCount \in Nat \ {0}
      /\ CacheRadioWeight \in Nat /\ PrefillLoadWeight \in Nat
      /\ DynamicRequestWeight \in Nat
      /\ RequestLoadWeight > 0 => DynamicRequestWeight > 0
  BY Quantities, LBAssumption
<1>2. /\ CacheTerm(a) \in Int
      /\ cacheHits[a] =< cacheHits[b] => CacheTerm(a) =< CacheTerm(b)
      /\ cacheHits[a] < cacheHits[b] /\ CacheRadioWeight > 0 => CacheTerm(a) < CacheTerm(b)
  BY <1>1, TermMonotone DEF CacheTerm
<1>3. /\ QueueTerm(a) \in Int
      /\ Queued(a) =< Queued(b) => QueueTerm(a) =< QueueTerm(b)
      /\ Queued(a) < Queued(b) /\ RequestLoadWeight > 0 => QueueTerm(a) < QueueTerm(b)
  <2>1. /\ Queued(a) =< Queued(b) => Queued(a) - MinQueue =< Queued(b) - MinQueue
        /\ Queued(a) < Queued(b) => Queued(a) - MinQueue < Queued(b) - MinQueue
    BY <1>1
  <2> QED  BY <1>1, <2>1, TermMonotone DEF QueueTerm
<1>4. /\ PromptTerm(a) \in Int
      /\ PromptLength(a) =< PromptLength(b) => PromptTerm(a) =< PromptTerm(b)
      /\ PromptLength(a) < PromptLength(b) /\ PrefillLoadWeight > 0 =>
             PromptTerm(a) < PromptTerm(b)
  BY <1>1, TermMonotone DEF PromptTerm
<1>5. Score(a) = CacheTerm(a) - QueueTerm(a) - PromptTerm(a)
  BY DEF Score, CacheTerm, QueueTerm, PromptTerm
<1> QED  BY <1>2, <1>3, <1>4, <1>5

\* A better host has a better score.
LEMMA DominantScores ==
  ASSUME StatsOK, NEW a \in Host, NEW b \in Host, Dominates(a, b)
  PROVE  Score(a) > Score(b)
<1>1. /\ CacheTerm(a) \in Int /\ QueueTerm(a) \in Int /\ PromptTerm(a) \in Int
      /\ CacheTerm(b) \in Int /\ QueueTerm(b) \in Int /\ PromptTerm(b) \in Int
      /\ Score(a) = CacheTerm(a) - QueueTerm(a) - PromptTerm(a)
      /\ Score(b) = CacheTerm(b) - QueueTerm(b) - PromptTerm(b)
  BY Terms
<1>2. CacheTerm(b) =< CacheTerm(a) /\ QueueTerm(a) =< QueueTerm(b)
      /\ PromptTerm(a) =< PromptTerm(b)
  BY Terms, Quantities DEF Dominates
<1>3. CacheTerm(b) < CacheTerm(a) \/ QueueTerm(a) < QueueTerm(b)
      \/ PromptTerm(a) < PromptTerm(b)
  BY Terms, Quantities DEF Dominates
<1> QED  BY <1>1, <1>2, <1>3

\* With queues as far apart as OverloadBeatsCache asks, the busiest host scores
\* below the least busy one unless it has less prompt work.
LEMMA OverloadedScores ==
  ASSUME StatsOK, NEW a \in Host, NEW b \in Host,
         RequestLoadWeight > 0, Delta > 5 * CacheRadioWeight,
         Queued(b) = MinQueue + Delta, Queued(a) = MinQueue,
         PromptLength(a) =< PromptLength(b)
  PROVE  Score(a) > Score(b)
<1> DEFINE C == CacheRadioWeight
           R == DynamicRequestWeight
           H == HashCount
           D == Delta
           M == MaxPrompt
<1>1. /\ C \in Nat /\ R \in Nat /\ H \in Nat \ {0} /\ D \in Nat \ {0} /\ M \in Nat \ {0}
      /\ R >= (D + 4) \div 5 /\ D > 5 * C
      /\ cacheHits[a] \in Nat /\ cacheHits[b] \in Nat /\ cacheHits[b] =< H
  BY Quantities, LBAssumption
<1>2. C + 1 =< R
  BY <1>1
<1>3. CacheTerm(a) >= 0
  <2> HIDE DEF C, D, M
  <2>1. C * cacheHits[a] \in Nat
    BY <1>1
  <2>2. C * cacheHits[a] * D \in Nat
    BY <1>1, <2>1
  <2> QED  BY <1>1, <2>2 DEF CacheTerm, C, D, M
<1>4. CacheTerm(b) =< C * H * D * M
  BY <1>1, TermMonotone DEF CacheTerm
<1>5. QueueTerm(a) = 0
  <2>1. Queued(a) - MinQueue = 0
    BY Quantities
  <2>2. R * 0 * H * M = 0
    BY <1>1
  <2> QED  BY <2>1, <2>2 DEF QueueTerm
<1>6. QueueTerm(b) = R * D * H * M
  <2>1. Queued(b) - MinQueue = D
    BY Quantities
  <2> QED  BY <2>1 DEF QueueTerm
<1> HIDE DEF C, R, H, D, M
<1>7. C * H * D * M < R * D * H * M
  <2> DEFINE K == D * H * M
  <2>1. K \in Nat \ {0}
    BY <1>1, ProductPositive
  <2>2. C * H * D * M = C * K
    BY <1>1
  <2>3. R * D * H * M = R * K
    BY <1>1
  <2> HIDE DEF K
  <2>4. (C + 1) * K =< R * K /\ (C + 1) * K = C * K + K
    BY <1>1, <1>2, <2>1, ProductMonotone
  <2> QED  BY <1>1, <2>1, <2>2, <2>3, <2>4
<1>8. PromptTerm(a) =< PromptTerm(b)
  BY Terms
<1>9. /\ CacheTerm(a) \in Int /\ PromptTerm(a) \in Int
      /\ CacheTerm(b) \in Int /\ PromptTerm(b) \in Int /\ QueueTerm(b) \in Int
      /\ Score(a) = CacheTerm(a) - QueueTerm(a) - PromptTerm(a)
      /\ Score(b) = CacheTerm(b) - QueueTerm(b) - PromptTerm(b)
  BY Terms
<1>10. C * H * D * M \in Int
  BY <1>1
<1> QED  BY <1>3, <1>4, <1>5, <1>6, <1>7, <1>8, <1>9, <1>10

-----------------------------------------------------------------------------
\* The number of candidates: at least one, and no more than the percentage.
LEMMA Share ==
  ASSUME percent \in Percents
  PROVE  /\ CandidateNum \in Nat \ {0} /\ CandidateNum =< Cardinality(Host)
         /\ CandidateNum * 100 =< Max({100, Cardinality(Host) * percent})
<1> DEFINE N == Cardinality(Host)
           share == (N * percent) \div 100
<1>1. N \in Nat \ {0} /\ percent \in Nat
  BY LBAssumption, FS_CardinalityType, FS_EmptySet
<1>2. N * percent \in Nat
  BY <1>1
<1>3. share \in Nat /\ share * 100 =< N * percent
  <2> DEFINE p == N * percent
  <2>1. p \in Nat
    BY <1>2
  <2> HIDE DEF p
  <2> QED  BY <2>1 DEF p
<1> HIDE DEF share
<1>4. Max({share, 1}) = IF share >= 1 THEN share ELSE 1
  BY <1>3, MaxMinPair
<1>5. Max({100, N * percent}) = IF 100 >= N * percent THEN 100 ELSE N * percent
  BY <1>2, MaxMinPair
<1>6. CandidateNum = IF Max({share, 1}) =< N THEN Max({share, 1}) ELSE N
  <2> DEFINE larger == Max({share, 1})
  <2>1. larger \in Int
    BY <1>3, <1>4
  <2> HIDE DEF larger, N
  <2>2. Min({larger, N}) = IF larger =< N THEN larger ELSE N
    BY <1>1, <2>1, MaxMinPair
  <2> QED  BY <2>2 DEF CandidateNum, share, larger, N
<1> QED  BY <1>1, <1>2, <1>3, <1>4, <1>5, <1>6

\* The sort has an outcome: the next candidate is the best of the rest.
LEMMA CandidatesExist ==
  ASSUME StatsOK, NEW n \in 0..Cardinality(Host)
  PROVE  TopCandidates(n) # {}
<1> DEFINE N == Cardinality(Host)
           Missing == {m \in Nat : m =< N /\ TopCandidates(m) = {}}
           Order == {p \in Host \X Host : Score(p[1]) =< Score(p[2])}
<1>0. N \in Nat
  BY LBAssumption, FS_CardinalityType
<1>1. SUFFICES ASSUME Missing # {}  PROVE FALSE
  BY <1>0
<1>2. PICK m \in Missing : \A k \in Missing : m =< k
  BY <1>1, LeastElement
<1>3. \A h \in Host : Score(h) \in Int
  BY Terms
<1>4. m # 0
  <2>1. {} \in TopCandidates(0)
    BY FS_EmptySet DEF TopCandidates
  <2> QED  BY <1>2, <2>1
<1>5. m - 1 \in Nat /\ m - 1 < N /\ TopCandidates(m - 1) # {}
  BY <1>0, <1>2, <1>4
<1>6. PICK top \in SUBSET Host :
          /\ Cardinality(top) = m - 1
          /\ \A a \in top, b \in Host \ top : Score(a) >= Score(b)
  BY <1>5 DEF TopCandidates
<1>7. IsFiniteSet(top) /\ IsFiniteSet(Host \ top) /\ Host \ top # {}
  <2>1. top # Host
    BY <1>5, <1>6
  <2> QED  BY <1>6, <2>1, LBAssumption, FS_Subset, FS_Difference
<1>8. PICK x \in Host \ top : \A y \in Host \ top : Score(y) =< Score(x)
  <2>1. \A a, b \in Host : <<a, b>> \in Order <=> Score(a) =< Score(b)
    OBVIOUS
  <2> HIDE DEF Order
  <2>2. TotalOn(Order, Host)
    BY <1>3, <2>1 DEF TotalOn
  <2>3. PICK x : IsTop(Order, Host \ top, x)
    BY <1>7, <2>2, TopExists
  <2> QED  BY <2>1, <2>3 DEF IsTop
<1>9. top \cup {x} \in TopCandidates(m)
  <2>1. Cardinality(top \cup {x}) = m
    BY <1>2, <1>6, <1>7, <1>8, FS_AddElement
  <2>2. \A a \in top \cup {x}, b \in Host \ (top \cup {x}) : Score(a) >= Score(b)
    BY <1>3, <1>6, <1>8
  <2> QED  BY <1>6, <1>8, <2>1, <2>2 DEF TopCandidates
<1> QED  BY <1>2, <1>9

-----------------------------------------------------------------------------
\* The candidates that the pick is made from are all the hosts or the first ones
\* by score, and the choice is one of them.
LBInv ==
    /\ TypeOK
    /\ step = "pick" => candidates = Host \/ candidates \in TopCandidates(CandidateNum)
    /\ step = "done" => chosen \in candidates

LEMMA TypesOfStats == TypeOK => StatsOK
  BY DEF TypeOK, StatsOK

LEMMA TopIsSound ==
  ASSUME TypeOK, NEW top \in TopCandidates(CandidateNum)
  PROVE  /\ top \in SUBSET Host /\ top # {}
         /\ Cardinality(top) = CandidateNum
         /\ \A a \in top, b \in Host \ top : Score(a) >= Score(b)
<1>1. /\ top \in SUBSET Host /\ Cardinality(top) = CandidateNum
      /\ \A a \in top, b \in Host \ top : Score(a) >= Score(b)
  BY DEF TopCandidates
<1>2. top # {}
  BY <1>1, Share, FS_EmptySet DEF TypeOK
<1> QED  BY <1>1, <1>2

LEMMA InitLBInv == Init => LBInv
  BY LBAssumption DEF Init, LBInv, TypeOK, NoLoad, NoHits

LEMMA NextLBInv == LBInv /\ [Next]_vars => LBInv'
<1> SUFFICES ASSUME LBInv, [Next]_vars  PROVE LBInv'
  OBVIOUS
<1> USE DEF LBInv, TypeOK
<1>1. CASE ChooseAtRandom \/ QueryLoadFails
  BY <1>1 DEF ChooseAtRandom, QueryLoadFails
<1>2. ASSUME NEW report \in [Host -> Reported \cup {Absent}], QueryLoad(report)
      PROVE  LBInv'
  <2>1. \A n \in Int : Clamped(n) \in Nat
    BY MaxMinPair DEF Clamped
  <2>2. \A h \in Host : stats'[h] \in [queued : Int, prompt : Nat]
    <3> TAKE h \in Host
    <3>1. stats'[h] = IF report[h] = Absent THEN NoLoad
                      ELSE [queued |-> report[h].queued, prompt |-> Clamped(report[h].prompt)]
      BY <1>2 DEF QueryLoad
    <3>2. report[h] # Absent => report[h] \in [queued : Int, prompt : Int]
      BY LBAssumption
    <3> QED  BY <2>1, <3>1, <3>2 DEF NoLoad
  <2>3. stats' \in [Host -> [queued : Int, prompt : Nat]]
    BY <1>2, <2>2 DEF QueryLoad
  <2> QED  BY <1>2, <2>3 DEF QueryLoad
<1>3. ASSUME NEW hits \in [Host -> 0..HashCount], QueryKVCache(hits)  PROVE LBInv'
  BY <1>3 DEF QueryKVCache
<1>4. CASE QueryKVCache(NoHits)
  <2>1. NoHits \in [Host -> 0..HashCount]
    BY LBAssumption DEF NoHits
  <2> QED  BY <1>3, <1>4, <2>1
<1>5. CASE SelectCandidates
  <2>1. /\ candidates' \in TopCandidates(CandidateNum) /\ candidates' \in SUBSET Host
        /\ step' = "pick" /\ UNCHANGED <<percent, stats, cacheHits, chosen>>
    BY <1>5 DEF SelectCandidates, TopCandidates
  <2>2. TopCandidates(CandidateNum)' = TopCandidates(CandidateNum)
    BY <2>1 DEF TopCandidates, CandidateNum, Score, DynamicRequestWeight, Delta, MinQueue,
                MaxQueue, MaxPrompt, Queued, PromptLength
  <2> QED  BY <2>1, <2>2
<1>6. CASE ChooseFromCandidates
  <2>1. candidates # {}
    BY <1>6, TopIsSound, LBAssumption DEF ChooseFromCandidates
  <2>2. /\ step' = "done" /\ chosen' \in candidates /\ candidates' = candidates
        /\ UNCHANGED <<percent, stats, cacheHits>>
    BY <1>6, <2>1 DEF ChooseFromCandidates
  <2> QED  BY <2>2
<1>7. CASE UNCHANGED vars
  <2>1. /\ step' = step /\ candidates' = candidates
        /\ UNCHANGED <<percent, stats, cacheHits, chosen>>
    BY <1>7 DEF vars
  <2>2. TopCandidates(CandidateNum)' = TopCandidates(CandidateNum)
    BY <2>1 DEF TopCandidates, CandidateNum, Score, DynamicRequestWeight, Delta, MinQueue,
                MaxQueue, MaxPrompt, Queued, PromptLength
  <2> QED  BY <2>1, <2>2
<1> QED  BY <1>1, <1>2, <1>3, <1>4, <1>5, <1>6, <1>7 DEF Next

LEMMA SoundChoices ==
  ASSUME LBInv
  PROVE  NoDominatedCandidate /\ AlwaysAHost /\ OverloadBeatsCache
<1>0. TypeOK /\ StatsOK
  BY TypesOfStats DEF LBInv
<1>1. ASSUME Scored, NEW b \in candidates, NEW a \in Host \ candidates
      PROVE  b \in Host /\ Score(b) >= Score(a) /\ Score(a) \in Int /\ Score(b) \in Int
  BY <1>0, <1>1, TopIsSound, Terms DEF LBInv, Scored
<1>2. NoDominatedCandidate
  <2> SUFFICES ASSUME Scored, NEW b \in candidates, NEW a \in Host \ candidates,
                      Dominates(a, b)
               PROVE  FALSE
    BY DEF NoDominatedCandidate
  <2> QED  BY <1>0, <1>1, DominantScores
<1>3. AlwaysAHost
  <2>1. step = "pick" => candidates # {}
    BY <1>0, TopIsSound, LBAssumption DEF LBInv
  <2>2. Scored => Cardinality(candidates) * 100 =< Max({100, Cardinality(Host) * percent})
    BY <1>0, TopIsSound, Share DEF LBInv, Scored, TypeOK
  <2> QED  BY <2>1, <2>2 DEF AlwaysAHost, LBInv
<1>4. OverloadBeatsCache
  <2> SUFFICES ASSUME Scored, RequestLoadWeight > 0, Delta > 5 * CacheRadioWeight,
                      NEW b \in candidates, NEW a \in Host \ candidates,
                      Queued(b) = MinQueue + Delta, Queued(a) = MinQueue,
                      ~(PromptLength(b) < PromptLength(a))
               PROVE  FALSE
    BY DEF OverloadBeatsCache
  <2>1. b \in Host /\ Score(b) >= Score(a) /\ Score(a) \in Int /\ Score(b) \in Int
    BY <1>1
  <2>2. PromptLength(a) =< PromptLength(b)
    BY <1>0, <2>1, Quantities
  <2> QED  BY <1>0, <2>1, <2>2, OverloadedScores
<1> QED  BY <1>2, <1>3, <1>4

-----------------------------------------------------------------------------
\* The state of a choice keeps its types, whatever the service reports: absent
\* hosts and negative counters included (getEndpointStats).
THEOREM ChoiceTypes == Spec => []TypeOK
<1>1. LBInv => TypeOK
  BY DEF LBInv
<1> QED  BY InitLBInv, NextLBInv, <1>1, PTL DEF Spec

\* No host makes it into the candidates past one that is better in every respect,
\* for all weights, counters and cache hits (mergeStatsAndScore and the sort).
THEOREM BetterHostsFirst == Spec => []NoDominatedCandidate
  BY InitLBInv, NextLBInv, SoundChoices, PTL DEF Spec

\* A request always gets a host out of candidates that keep to the percentage
\* (candidateNumFromContext, chooseFromCandidates).
THEOREM HostAlwaysFound == Spec => []AlwaysAHost
  BY InitLBInv, NextLBInv, SoundChoices, PTL DEF Spec

\* Beyond a difference of five requests per unit of the cache weight, no cache hit
\* outweighs the queue (the dynamic weight of mergeStatsAndScore).
THEOREM CacheCannotPin == Spec => []OverloadBeatsCache
  BY InitLBInv, NextLBInv, SoundChoices, PTL DEF Spec

\* The sort never leaves the choice without candidates to go on with, so that
\* the three theorems above are about choices that come to an end.
THEOREM ChoiceNeverStuck == Spec => [](step = "score" => TopCandidates(CandidateNum) # {})
<1>1. ASSUME LBInv  PROVE TopCandidates(CandidateNum) # {}
  <2>1. CandidateNum \in 0..Cardinality(Host)
    BY <1>1, Share, LBAssumption, FS_CardinalityType DEF LBInv, TypeOK
  <2> QED  BY <1>1, <2>1, TypesOfStats, CandidatesExist DEF LBInv
<1>2. LBInv => (step = "score" => TopCandidates(CandidateNum) # {})
  BY <1>1
<1> QED  BY InitLBInv, NextLBInv, <1>2, PTL DEF Spec
=============================================================================
