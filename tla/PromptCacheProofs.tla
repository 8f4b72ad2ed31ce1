-------------------------- MODULE PromptCacheProofs -------------------------
(***************************************************************************)
(* Proofs about PromptCache, for any requests, hosts, prompts and lengths  *)
(* of a block: what the recursion of PromptToHash computes for every text, *)
(* that a look-up by hashes finds exactly the common blocks, and that a    *)
(* hit has an answered prompt behind it.                                   *)
(***************************************************************************)
EXTENDS PromptCache, Integers, SequenceTheorems, TLAPS

WF == INSTANCE WellFoundedInduction

-----------------------------------------------------------------------------
\* Every set of naturals that is not empty has a least element.
LEMMA LeastElement ==
  ASSUME NEW T \in SUBSET Nat, T # {}
  PROVE  \E i \in T : \A j \in T : i =< j
<1>1. WF!IsWellFoundedOn({p \in Nat \X Nat : p[1] < p[2]}, Nat)
  BY WF!NatLessThanWellFounded, Zenon DEF WF!OpToRel
<1>2. PICK i \in T : \A j \in T : <<j, i>> \notin {p \in Nat \X Nat : p[1] < p[2]}
  BY <1>1, WF!WFMin, Zenon
<1>3. \A j \in T : ~(j < i)
  BY <1>2
<1> QED  BY <1>3

\* And a greatest one, if it has a bound.
LEMMA GreatestElement ==
  ASSUME NEW n \in Nat, NEW T \in SUBSET (0 .. n), T # {}
  PROVE  \E i \in T : \A j \in T : j =< i
<1> DEFINE U == {m \in 0 .. n : n - m \in T}
<1>1. PICK i \in T : TRUE
  OBVIOUS
<1>2. U \in SUBSET Nat /\ U # {}
  <2>1. n - i \in U
    OBVIOUS
  <2> QED  BY <2>1
<1>3. PICK m \in U : \A k \in U : m =< k
  <2> HIDE DEF U
  <2> QED  BY <1>2, LeastElement
<1>4. \A j \in T : n - j \in U
  OBVIOUS
<1>5. \A j \in T : m =< n - j
  BY <1>3, <1>4
<1> QED  BY <1>3, <1>5

-----------------------------------------------------------------------------
\* The blocks of a text.

\* Where the n-th block ends.
EndOf(text, n) == IF n * ChunkLen > Len(text) THEN Len(text) ELSE n * ChunkLen

LEMMA Times ==
  ASSUME NEW i \in Int, NEW j \in Int, NEW c \in Nat \ {0}
  PROVE  /\ i * c \in Int /\ (i - 1) * c = i * c - c
         /\ i =< j => i * c =< j * c
         /\ i < j => i * c < j * c
         /\ i < j => i * c =< (j - 1) * c
<1>1. i * c \in Int /\ j * c \in Int /\ (j - i) * c \in Int
  OBVIOUS
<1>2. (j - i) * c = j * c - i * c /\ (i - 1) * c = i * c - c /\ (j - 1) * c = j * c - c
  OBVIOUS
<1>3. j - i >= 0 => (j - i) * c >= 0
  OBVIOUS
<1>4. j - i >= 1 => (j - i) * c >= c
  OBVIOUS
<1> QED  BY <1>1, <1>2, <1>3, <1>4

LEMMA Blocks ==
  ASSUME NEW len \in Nat
  PROVE  /\ NumChunks(len) \in Nat
         /\ len =< NumChunks(len) * ChunkLen
         /\ (NumChunks(len) - 1) * ChunkLen < len
<1> DEFINE a == len + ChunkLen - 1
           n == a \div ChunkLen
<1>1. ChunkLen \in Nat \ {0} /\ a \in Nat /\ NumChunks(len) = n
  BY CacheAssumption DEF NumChunks
<1>2. n \in Int /\ n * ChunkLen =< a /\ a < n * ChunkLen + ChunkLen
  BY <1>1
<1>3. (n - 1) * ChunkLen = n * ChunkLen - ChunkLen
  BY <1>1, <1>2, Times
<1>4. n >= 0
  BY <1>1
<1> QED  BY <1>1, <1>2, <1>3, <1>4

\* The end of a block lies within it.
LEMMA BlockEnds ==
  ASSUME NEW S, NEW text \in Seq(S), NEW n \in 0 .. NumChunks(Len(text))
  PROVE  /\ EndOf(text, n) \in 0 .. Len(text)
         /\ EndOf(text, n) =< n * ChunkLen
         /\ (n - 1) * ChunkLen < EndOf(text, n)
         /\ n > 0 => EndOf(text, n - 1) = (n - 1) * ChunkLen
<1> DEFINE len == Len(text)
           m == NumChunks(len)
<1>1. /\ len \in Nat /\ m \in Nat /\ ChunkLen \in Nat \ {0} /\ n \in Int /\ m - 1 \in Int
      /\ (m - 1) * ChunkLen < len /\ len =< m * ChunkLen
  BY Blocks, CacheAssumption, LenProperties
<1>2. /\ (n - 1) * ChunkLen = n * ChunkLen - ChunkLen
      /\ n - 1 =< m - 1 => (n - 1) * ChunkLen =< (m - 1) * ChunkLen
      /\ n * ChunkLen \in Int /\ (m - 1) * ChunkLen \in Int
      /\ 0 =< n => 0 * ChunkLen =< n * ChunkLen
      /\ 0 =< n - 1 => 0 * ChunkLen =< (n - 1) * ChunkLen
  BY <1>1, Times
<1>3. (n - 1) * ChunkLen < len
  BY <1>1, <1>2
<1> QED  BY <1>1, <1>2, <1>3 DEF EndOf

\* A block that ends where another ends is at its place.
LEMMA EndsTell ==
  ASSUME NEW S, NEW p \in Seq(S), NEW q \in Seq(S),
         NEW i \in 0 .. NumChunks(Len(p)), NEW j \in 0 .. NumChunks(Len(q)),
         EndOf(p, i) = EndOf(q, j)
  PROVE  i = j
<1>1. /\ EndOf(p, i) \in Nat /\ EndOf(p, i) =< i * ChunkLen /\ (i - 1) * ChunkLen < EndOf(p, i)
      /\ EndOf(p, i) =< j * ChunkLen /\ (j - 1) * ChunkLen < EndOf(p, i)
  BY BlockEnds
<1>2. /\ i < j => i * ChunkLen =< (j - 1) * ChunkLen
      /\ j < i => j * ChunkLen =< (i - 1) * ChunkLen
      /\ i * ChunkLen \in Int /\ j * ChunkLen \in Int
      /\ (i - 1) * ChunkLen \in Int /\ (j - 1) * ChunkLen \in Int
  BY CacheAssumption, Times
<1> QED  BY <1>1, <1>2

-----------------------------------------------------------------------------
\* Sequences that are put together by recursion.

\* The functions that go on from element to element: one exists, as each part
\* of it can be made longer by one element.
Chain(seqs, n, G) ==
    \A i \in 1 .. n : G[i] = IF i = 1 THEN seqs[i] ELSE G[i - 1] \o seqs[i]

LEMMA ChainExists ==
  ASSUME NEW S, NEW seqs \in Seq(Seq(S)), NEW n \in 0 .. Len(seqs)
  PROVE  \E G \in [1 .. n -> Seq(S)] : Chain(seqs, n, G)
<1> DEFINE Short == {m \in 0 .. Len(seqs) : ~\E G \in [1 .. m -> Seq(S)] : Chain(seqs, m, G)}
<1>1. SUFFICES ASSUME Short # {}  PROVE FALSE
  OBVIOUS
<1>2. Len(seqs) \in Nat /\ \A i \in 1 .. Len(seqs) : seqs[i] \in Seq(S)
  BY LenProperties, ElementOfSeq
<1>3. PICK m \in Short : \A k \in Short : m =< k
  <2>1. Short \in SUBSET Nat
    BY <1>2
  <2> HIDE DEF Short
  <2> QED  BY <1>1, <2>1, LeastElement
<1>4. m # 0
  <2>1. [i \in 1 .. 0 |-> seqs[i]] \in [1 .. 0 -> Seq(S)]
    OBVIOUS
  <2>2. Chain(seqs, 0, [i \in 1 .. 0 |-> seqs[i]])
    BY DEF Chain
  <2> QED  BY <2>1, <2>2
<1>5. m - 1 \in 0 .. Len(seqs) /\ m \in 1 .. Len(seqs)
  <2>1. m \in 0 .. Len(seqs)
    BY <1>3
  <2> QED  BY <1>2, <1>4, <2>1
<1>6. PICK G \in [1 .. m - 1 -> Seq(S)] : Chain(seqs, m - 1, G)
  <2>1. m - 1 \notin Short
    <3> HIDE DEF Short
    <3> QED  BY <1>3, <1>5
  <2> QED  BY <1>5, <2>1
<1> DEFINE last == IF m = 1 THEN seqs[m] ELSE G[m - 1] \o seqs[m]
           H == [i \in 1 .. m |-> IF i = m THEN last ELSE G[i]]
<1>7. last \in Seq(S)
  BY <1>2, <1>5, <1>6, ConcatProperties
<1>8. H \in [1 .. m -> Seq(S)]
  BY <1>5, <1>6, <1>7
<1>9. Chain(seqs, m, H)
  <2> SUFFICES ASSUME NEW i \in 1 .. m
               PROVE  H[i] = IF i = 1 THEN seqs[i] ELSE H[i - 1] \o seqs[i]
    BY DEF Chain
  <2>1. i # 1 => H[i - 1] = G[i - 1]
    BY <1>5
  <2>2. CASE i = m
    BY <2>1, <2>2
  <2>3. CASE i # m
    <3>1. i \in 1 .. m - 1 /\ H[i] = G[i]
      BY <1>5, <2>3
    <3>2. G[i] = IF i = 1 THEN seqs[i] ELSE G[i - 1] \o seqs[i]
      BY <1>6, <3>1 DEF Chain
    <3> QED  BY <2>1, <3>1, <3>2
  <2> QED  BY <2>2, <2>3
<1>10. m \notin Short
  BY <1>8, <1>9
<1> QED  BY <1>3, <1>10

\* The concatenation of sequences over a set is a sequence over that set.
LEMMA FlattenTypes ==
  ASSUME NEW S, NEW seqs \in Seq(Seq(S))
  PROVE  FlattenSeq(seqs) \in Seq(S)
<1> DEFINE len == Len(seqs)
           R(G) == [i \in 1 .. len |-> IF i = 1 THEN seqs[i] ELSE G[i - 1] \o seqs[i]]
           flatten == CHOOSE G : G = R(G)
<1>1. len \in Nat /\ \A i \in 1 .. len : seqs[i] \in Seq(S)
  BY LenProperties, ElementOfSeq
<1>2. CASE len = 0
  BY <1>2, EmptySeq DEF FlattenSeq
<1>3. CASE len # 0
  <2>1. FlattenSeq(seqs) = flatten[len]
    BY <1>3, Zenon DEF FlattenSeq
  <2>2. flatten = R(flatten)
    <3>1. PICK G \in [1 .. len -> Seq(S)] : Chain(seqs, len, G)
      BY <1>1, ChainExists
    <3>2. G = R(G)
      BY <3>1 DEF Chain
    <3> QED  BY <3>2
  <2>3. \A i \in 1 .. len : flatten[i] = IF i = 1 THEN seqs[i] ELSE flatten[i - 1] \o seqs[i]
    <3> HIDE DEF flatten
    <3> QED  BY <2>2
  <2> HIDE DEF flatten, len
  <2> DEFINE Bad == {i \in 1 .. len : flatten[i] \notin Seq(S)}
  <2>4. ASSUME Bad # {}  PROVE FALSE
    <3>1. PICK i \in Bad : \A j \in Bad : i =< j
      <4>1. Bad \in SUBSET Nat
        BY <1>1
      <4> HIDE DEF Bad
      <4> QED  BY <2>4, <4>1, LeastElement
    <3>2. i \in 1 .. len /\ flatten[i] \notin Seq(S)
      BY <3>1
    <3>3. ASSUME i # 1  PROVE flatten[i - 1] \in Seq(S)
      <4>1. i - 1 \in 1 .. len /\ ~(i =< i - 1)
        BY <1>1, <3>2, <3>3
      <4>2. i - 1 \notin Bad
        <5> HIDE DEF Bad
        <5> QED  BY <3>1, <4>1
      <4> QED  BY <4>1, <4>2
    <3>4. seqs[i] \in Seq(S)
      BY <1>1, <3>2
    <3>5. i # 1 => flatten[i - 1] \o seqs[i] \in Seq(S)
      BY <3>3, <3>4, ConcatProperties
    <3> QED  BY <2>3, <3>2, <3>4, <3>5
  <2>5. len \in 1 .. len
    BY <1>1, <1>3
  <2>6. flatten[len] \in Seq(S)
    BY <2>4, <2>5
  <2> QED  BY <2>1, <2>6
<1> QED  BY <1>2, <1>3

LEMMA ContentTypes ==
  ASSUME NEW messages \in Seq(Seq(Part))
  PROVE  PromptContent(messages) \in Seq(Char)
<1> DEFINE parts == FlattenSeq(messages)
           texts == [i \in DOMAIN parts |-> TextOf(parts[i])]
<1>1. parts \in Seq(Part)
  BY FlattenTypes
<1>2. DOMAIN parts = 1 .. Len(parts) /\ Len(parts) \in Nat
  BY <1>1, LenProperties
<1>3. \A i \in DOMAIN parts : TextOf(parts[i]) \in Seq(Char)
  <2> SUFFICES ASSUME NEW i \in DOMAIN parts  PROVE TextOf(parts[i]) \in Seq(Char)
    OBVIOUS
  <2> HIDE DEF parts
  <2>1. parts[i] \in Part
    BY <1>1, <1>2, ElementOfSeq
  <2>2. parts[i].text \in Seq(Char) /\ <<>> \in Seq(Char)
    BY <2>1, EmptySeq DEF Part
  <2> QED  BY <2>2 DEF TextOf
<1>4. texts \in [1 .. Len(parts) -> Seq(Char)]
  BY <1>2, <1>3
<1>5. texts \in Seq(Seq(Char))
  BY <1>2, <1>4, SeqDef
<1>6. FlattenSeq(texts) \in Seq(Char)
  BY <1>5, FlattenTypes
<1> QED  BY <1>6 DEF PromptContent

-----------------------------------------------------------------------------
\* What the recursion of PromptToHash computes: the i-th hash is the one of the
\* text up to the end of its i-th block.
UpTo(text, i) == SubSeq(text, 1, EndOf(text, i))

LEMMA ChunkIsNext ==
  ASSUME NEW S, NEW text \in Seq(S), NEW i \in 1 .. NumChunks(Len(text))
  PROVE  UpTo(text, i) = UpTo(text, i - 1) \o Chunk(text, i)
<1> DEFINE k == EndOf(text, i - 1)
           n == EndOf(text, i)
<1>1. /\ Len(text) \in Nat /\ NumChunks(Len(text)) \in Nat
      /\ i \in 0 .. NumChunks(Len(text)) /\ i - 1 \in 0 .. NumChunks(Len(text)) /\ i > 0
  BY LenProperties, Blocks
<1>2. /\ k \in 0 .. Len(text) /\ n \in 0 .. Len(text)
      /\ (i - 1) * ChunkLen < n /\ k = (i - 1) * ChunkLen
  BY <1>1, BlockEnds
<1>3. Chunk(text, i) = SubSeq(text, k + 1, n)
  BY <1>2 DEF Chunk, EndOf
<1>4. 1 \in 1 .. Len(text) + 1 /\ k \in 1 - 1 .. Len(text) /\ n \in k .. Len(text)
  BY <1>1, <1>2
<1>5. SubSeq(text, 1, k) \o SubSeq(text, k + 1, n) = SubSeq(text, 1, n)
  <2> HIDE DEF k, n
  <2> QED  BY <1>4, ConcatAdjacentSubSeq
<1> QED  BY <1>3, <1>5 DEF UpTo

LEMMA HashesByRecursion ==
  ASSUME NEW S, NEW text \in Seq(S), Len(text) \notin 0 .. ChunkLen
  PROVE  PromptToHash(text) = [i \in 1 .. NumChunks(Len(text)) |-> UpTo(text, i)]
<1> DEFINE n == NumChunks(Len(text))
           R(G) == [i \in 0 .. n |-> IF i = 0 THEN <<>> ELSE G[i - 1] \o Chunk(text, i)]
           written == CHOOSE G : G = R(G)
<1>1. Len(text) \in Nat /\ n \in Nat /\ ChunkLen \in Nat \ {0}
  BY LenProperties, Blocks, CacheAssumption
<1>2. PromptToHash(text) = [i \in 1 .. n |-> Sum64(written[i])]
  <2>1. ~(Len(text) = 0) /\ ~(Len(text) \in 1 .. ChunkLen)
    BY <1>1
  <2> QED  BY <2>1, Zenon DEF PromptToHash
<1>3. UpTo(text, 0) = <<>>
  <2>1. EndOf(text, 0) = 0
    BY <1>1, BlockEnds DEF EndOf
  <2> QED  BY <2>1, SubSeqEmpty DEF UpTo
<1>4. written = R(written)
  <2> DEFINE G == [i \in 0 .. n |-> UpTo(text, i)]
  <2>1. ASSUME NEW i \in 0 .. n
        PROVE  G[i] = IF i = 0 THEN <<>> ELSE G[i - 1] \o Chunk(text, i)
    <3>1. i # 0 => i \in 1 .. n /\ i - 1 \in 0 .. n
      BY <1>1
    <3> QED  BY <1>3, <3>1, ChunkIsNext
  <2>2. G = R(G)
    BY <2>1
  <2> HIDE DEF G
  <2> QED  BY <2>2
<1>5. \A i \in 0 .. n : written[i] = IF i = 0 THEN <<>> ELSE written[i - 1] \o Chunk(text, i)
  <2> HIDE DEF written
  <2> QED  BY <1>4
<1> HIDE DEF written
<1> DEFINE Bad == {i \in 0 .. n : written[i] # UpTo(text, i)}
<1>6. ASSUME Bad # {}  PROVE FALSE
  <2>1. PICK i \in Bad : \A j \in Bad : i =< j
    <3>1. Bad \in SUBSET Nat
      BY <1>1
    <3> HIDE DEF Bad
    <3> QED  BY <1>6, <3>1, LeastElement
  <2>2. i \in 0 .. n /\ written[i] # UpTo(text, i)
    BY <2>1
  <2>3. i # 0
    BY <1>3, <1>5, <2>2
  <2>4. i \in 1 .. n /\ i - 1 \in 0 .. n /\ ~(i =< i - 1)
    BY <1>1, <2>2, <2>3
  <2>5. written[i - 1] = UpTo(text, i - 1)
    <3>1. i - 1 \notin Bad
      <4> HIDE DEF Bad
      <4> QED  BY <2>1, <2>4
    <3> QED  BY <2>4, <3>1
  <2>6. UpTo(text, i) = UpTo(text, i - 1) \o Chunk(text, i)
    BY <2>4, ChunkIsNext
  <2> QED  BY <1>5, <2>2, <2>3, <2>5, <2>6
<1>7. \A i \in 1 .. n : written[i] = UpTo(text, i)
  BY <1>6
<1> QED  BY <1>2, <1>7 DEF Sum64

THEOREM HashesArePrefixes ==
  ASSUME NEW S, NEW text \in Seq(S)
  PROVE  PromptToHash(text) = [i \in 1 .. NumChunks(Len(text)) |-> UpTo(text, i)]
<1> DEFINE len == Len(text)
           n == NumChunks(len)
<1>1. len \in Nat /\ n \in Nat /\ ChunkLen \in Nat \ {0}
  BY LenProperties, Blocks, CacheAssumption
<1>2. /\ len =< n * ChunkLen /\ (n - 1) * ChunkLen < len
      /\ n * ChunkLen \in Int /\ (n - 1) * ChunkLen \in Int
      /\ 1 < n => 1 * ChunkLen =< (n - 1) * ChunkLen
      /\ 0 < n => 0 * ChunkLen =< (n - 1) * ChunkLen
  <2>1. /\ n * ChunkLen \in Int
        /\ 1 < n => 1 * ChunkLen =< (n - 1) * ChunkLen
        /\ 0 < n => 0 * ChunkLen =< (n - 1) * ChunkLen
        /\ (n - 1) * ChunkLen = n * ChunkLen - ChunkLen
    <3> HIDE DEF n
    <3> QED  BY <1>1, Times
  <2> QED  BY <1>1, <2>1, Blocks
<1>3. CASE len = 0
  <2>1. n = 0
    BY <1>1, <1>2, <1>3
  <2>2. PromptToHash(text) = <<>>
    <3>1. ~(len \in 1 .. ChunkLen)
      BY <1>3
    <3> QED  BY <1>3, <3>1 DEF PromptToHash
  <2> QED  BY <2>1, <2>2
<1>4. CASE len \in 1 .. ChunkLen
  <2>1. n = 1
    BY <1>1, <1>2, <1>4
  <2>2. PromptToHash(text) = <<Sum64(text)>>
    <3>1. len # 0
      BY <1>4
    <3> QED  BY <1>4, <3>1 DEF PromptToHash
  <2>3. UpTo(text, 1) = text
    <3>1. EndOf(text, 1) = Len(text)
      BY <1>1, <1>4 DEF EndOf
    <3> QED  BY <3>1, SubSeqFull DEF UpTo
  <2>4. [i \in 1 .. 1 |-> UpTo(text, i)] = <<text>>
    BY <2>3
  <2> QED  BY <2>1, <2>2, <2>4 DEF Sum64
<1>5. CASE len \notin 0 .. ChunkLen
  BY <1>5, HashesByRecursion
<1> QED  BY <1>1, <1>3, <1>4, <1>5

-----------------------------------------------------------------------------
\* Common blocks, and what of them the hashes show.
Shared(p, q) ==
    {n \in 0 .. NumChunks(Len(p)) :
        /\ n =< NumChunks(Len(q))
        /\ EndOf(p, n) = EndOf(q, n)
        /\ \A i \in 1 .. EndOf(p, n) : p[i] = q[i]}

LEMMA UpToTypes ==
  ASSUME NEW S, NEW p \in Seq(S), NEW n \in 0 .. NumChunks(Len(p))
  PROVE  /\ UpTo(p, n) \in Seq(S)
         /\ Len(UpTo(p, n)) = EndOf(p, n)
         /\ EndOf(p, n) \in Nat
         /\ \A i \in 1 .. EndOf(p, n) : UpTo(p, n)[i] = p[i]
<1> DEFINE e == EndOf(p, n)
<1>1. e \in 0 .. Len(p) /\ Len(p) \in Nat
  BY BlockEnds, LenProperties
<1> HIDE DEF e
<1>2. \A i \in 1 .. e : p[i] \in S
  BY <1>1, ElementOfSeq
<1>3. /\ SubSeq(p, 1, e) \in Seq(S)
      /\ Len(SubSeq(p, 1, e)) = IF 1 <= e THEN e - 1 + 1 ELSE 0
      /\ \A i \in 1 .. e - 1 + 1 : SubSeq(p, 1, e)[i] = p[1 + i - 1]
  BY <1>1, <1>2, SubSeqProperties
<1>4. \A i \in 1 .. e : SubSeq(p, 1, e)[i] = p[i]
  BY <1>1, <1>3
<1>5. UpTo(p, n) = SubSeq(p, 1, e)
  BY DEF UpTo, e
<1> QED  BY <1>1, <1>3, <1>4, <1>5 DEF e

\* Two texts share their first n blocks exactly if their n-th hashes are equal.
LEMMA SharedIsEqualHash ==
  ASSUME NEW S, NEW p \in Seq(S), NEW q \in Seq(S),
         NEW n \in 0 .. NumChunks(Len(p)), n =< NumChunks(Len(q))
  PROVE  n \in Shared(p, q) <=> UpTo(p, n) = UpTo(q, n)
<1>1. NumChunks(Len(p)) \in Nat /\ NumChunks(Len(q)) \in Nat /\ n \in 0 .. NumChunks(Len(q))
  BY Blocks, LenProperties
<1>2. /\ UpTo(p, n) \in Seq(S) /\ Len(UpTo(p, n)) = EndOf(p, n)
      /\ \A i \in 1 .. EndOf(p, n) : UpTo(p, n)[i] = p[i]
      /\ UpTo(q, n) \in Seq(S) /\ Len(UpTo(q, n)) = EndOf(q, n)
      /\ \A i \in 1 .. EndOf(q, n) : UpTo(q, n)[i] = q[i]
  BY <1>1, UpToTypes
<1>3. ASSUME n \in Shared(p, q)  PROVE UpTo(p, n) = UpTo(q, n)
  <2>1. /\ EndOf(p, n) = EndOf(q, n)
        /\ \A i \in 1 .. EndOf(p, n) : p[i] = q[i]
    BY <1>3 DEF Shared
  <2>2. \A i \in 1 .. Len(UpTo(p, n)) : UpTo(p, n)[i] = UpTo(q, n)[i]
    BY <1>2, <2>1
  <2> QED  BY <1>2, <2>1, <2>2, SeqEqual
<1>4. ASSUME UpTo(p, n) = UpTo(q, n)  PROVE n \in Shared(p, q)
  <2>1. EndOf(p, n) = EndOf(q, n)
    BY <1>2, <1>4
  <2>2. \A i \in 1 .. EndOf(p, n) : p[i] = q[i]
    BY <1>2, <1>4, <2>1
  <2> QED  BY <2>1, <2>2 DEF Shared
<1> QED  BY <1>3, <1>4

\* With n blocks, all the blocks before the n-th are shared.
LEMMA EarlierShared ==
  ASSUME NEW S, NEW p \in Seq(S), NEW q \in Seq(S), NEW n \in Shared(p, q), NEW i \in 1 .. n
  PROVE  UpTo(p, i) = UpTo(q, i)
<1> DEFINE np == NumChunks(Len(p))
           nq == NumChunks(Len(q))
<1>1. /\ np \in Nat /\ nq \in Nat /\ n \in 0 .. np /\ n =< nq
      /\ EndOf(p, n) = EndOf(q, n)
      /\ \A j \in 1 .. EndOf(p, n) : p[j] = q[j]
  BY Blocks, LenProperties DEF Shared
<1>2. i \in 0 .. np /\ i \in 0 .. nq /\ i =< nq
  BY <1>1
<1>3. CASE i = n
  BY <1>1, <1>2, <1>3, SharedIsEqualHash
<1>4. CASE i # n
  <2> DEFINE j == i + 1
  <2>1. j \in 1 .. n /\ j - 1 = i /\ j \in 0 .. np /\ j \in 0 .. nq /\ j > 0
    BY <1>1, <1>4
  <2>2. EndOf(p, j - 1) = (j - 1) * ChunkLen /\ EndOf(q, j - 1) = (j - 1) * ChunkLen
    <3> HIDE DEF j
    <3> QED  BY <2>1, BlockEnds
  <2>3. EndOf(p, i) = i * ChunkLen /\ EndOf(q, i) = i * ChunkLen
    BY <2>1, <2>2
  <2>4. i * ChunkLen =< (n - 1) * ChunkLen /\ (n - 1) * ChunkLen < EndOf(p, n)
    BY <1>1, <1>4, BlockEnds, CacheAssumption, Times
  <2>5. /\ EndOf(p, i) \in Nat /\ EndOf(p, n) \in Nat
        /\ (n - 1) * ChunkLen \in Int
    <3>1. n - 1 \in Int /\ n - 1 \in Int /\ ChunkLen \in Nat \ {0}
      BY <1>1, CacheAssumption
    <3> QED  BY <1>1, <1>2, <3>1, UpToTypes, Times
  <2>6. EndOf(p, i) =< EndOf(p, n)
    BY <2>3, <2>4, <2>5
  <2>7. \A k \in 1 .. EndOf(p, i) : p[k] = q[k]
    BY <1>1, <2>5, <2>6
  <2>8. i \in Shared(p, q)
    BY <1>2, <2>3, <2>7 DEF Shared
  <2> QED  BY <1>2, <2>8, SharedIsEqualHash
<1> QED  BY <1>3, <1>4

\* No hash matches one of another place.
LEMMA MatchesInPlace ==
  ASSUME NEW S, NEW p \in Seq(S), NEW q \in Seq(S),
         NEW i \in 1 .. NumChunks(Len(p)), NEW j \in 1 .. NumChunks(Len(q)),
         UpTo(p, i) = UpTo(q, j)
  PROVE  i = j /\ i \in Shared(p, q)
<1>1. NumChunks(Len(p)) \in Nat /\ NumChunks(Len(q)) \in Nat
  BY Blocks, LenProperties
<1>2. i \in 0 .. NumChunks(Len(p)) /\ j \in 0 .. NumChunks(Len(q))
  BY <1>1
<1>3. Len(UpTo(p, i)) = EndOf(p, i) /\ Len(UpTo(q, j)) = EndOf(q, j)
  BY <1>2, UpToTypes
<1>4. i = j
  BY <1>2, <1>3, EndsTell
<1> QED  BY <1>1, <1>2, <1>4, SharedIsEqualHash

LEMMA SharedBlocksGreatest ==
  ASSUME NEW S, NEW p \in Seq(S), NEW q \in Seq(S)
  PROVE  /\ SharedBlocks(p, q) \in Shared(p, q)
         /\ \A m \in Shared(p, q) : m =< SharedBlocks(p, q)
<1>1. NumChunks(Len(p)) \in Nat /\ NumChunks(Len(q)) \in Nat /\ ChunkLen \in Nat \ {0}
      /\ Len(p) \in Nat /\ Len(q) \in Nat
  BY Blocks, LenProperties, CacheAssumption
<1>2. 0 \in Shared(p, q)
  <2>1. EndOf(p, 0) = 0 /\ EndOf(q, 0) = 0
    BY <1>1 DEF EndOf
  <2> QED  BY <1>1, <2>1 DEF Shared
<1>3. \E n \in Shared(p, q) : \A m \in Shared(p, q) : m =< n
  <2>1. Shared(p, q) \in SUBSET (0 .. NumChunks(Len(p)))
    BY DEF Shared
  <2> QED  BY <1>1, <1>2, <2>1, GreatestElement
<1>4. SharedBlocks(p, q) = CHOOSE n \in Shared(p, q) : \A m \in Shared(p, q) : m =< n
  BY Zenon DEF SharedBlocks, Shared, EndOf
<1> QED  BY <1>3, <1>4, Zenon

-----------------------------------------------------------------------------
\* Where the hashes in the store come from.
Hashes(r) == {promptHash[r][i] : i \in DOMAIN promptHash[r]}

SavedFor(h) == {r \in Request : stage[r] = "saved" /\ serverIp[r] = h}

Provenance ==
    /\ \A r \in Request : stage[r] = "new" => hits[r] = NoHits
    /\ \A r \in Request : stage[r] # "new" => serverIp[r] \in Host /\ prompt[r] \in Prompts
    /\ \A r \in Request : r \in saves \/ stage[r] = "saved" => prompt[r] \in answered[serverIp[r]]
    /\ \A h \in Host : store[h] = UNION {Hashes(r) : r \in SavedFor(h)}

Content(r) == PromptContent(prompt[r])

LEMMA PromptTypes ==
  ASSUME NEW messages \in Prompts \cup {<<>>}
  PROVE  /\ PromptContent(messages) \in Seq(Char)
         /\ PromptToHash(PromptContent(messages)) \in Seq(Seq(Char))
         /\ DOMAIN PromptToHash(PromptContent(messages)) = 1 .. NumChunks(Len(PromptContent(messages)))
         /\ Len(PromptToHash(PromptContent(messages))) = NumChunks(Len(PromptContent(messages)))
<1> DEFINE text == PromptContent(messages)
           n == NumChunks(Len(text))
<1>1. text \in Seq(Char)
  <2>1. messages \in Seq(Seq(Part))
    BY CacheAssumption, EmptySeq
  <2> QED  BY <2>1, ContentTypes
<1> HIDE DEF text
<1>2. n \in Nat
  BY <1>1, Blocks, LenProperties
<1>3. PromptToHash(text) = [i \in 1 .. n |-> UpTo(text, i)]
  BY <1>1, HashesArePrefixes
<1>4. \A i \in 1 .. n : UpTo(text, i) \in Seq(Char)
  BY <1>1, <1>2, UpToTypes
<1>5. [i \in 1 .. n |-> UpTo(text, i)] \in [1 .. n -> Seq(Char)]
  BY <1>4
<1>6. PromptToHash(text) \in Seq(Seq(Char))
  BY <1>2, <1>3, <1>5, SeqDef
<1>7. DOMAIN PromptToHash(text) = 1 .. n /\ Len(PromptToHash(text)) = n
  <2>1. DOMAIN PromptToHash(text) = 1 .. n
    BY <1>3
  <2> HIDE DEF n
  <2> QED  BY <1>2, <1>6, <2>1, LenProperties
<1> QED  BY <1>1, <1>6, <1>7 DEF text

\* A look-up finds the leading blocks, and no more than there are.
LEMMA StoredLengthGreatest ==
  ASSUME NEW h, NEW hashes, Len(hashes) \in Nat
  PROVE  /\ StoredLength(h, hashes) \in 0 .. Len(hashes)
         /\ \A i \in 1 .. StoredLength(h, hashes) : hashes[i] \in store[h]
         /\ \A m \in 0 .. Len(hashes) :
                (\A i \in 1 .. m : hashes[i] \in store[h]) => m =< StoredLength(h, hashes)
<1> DEFINE leading == {n \in 0 .. Len(hashes) : \A i \in 1 .. n : hashes[i] \in store[h]}
<1>1. leading \in SUBSET (0 .. Len(hashes)) /\ 0 \in leading
  OBVIOUS
<1>2. \E n \in leading : \A m \in leading : m =< n
  <2> HIDE DEF leading
  <2> QED  BY <1>1, GreatestElement
<1>3. StoredLength(h, hashes) = CHOOSE n \in leading : \A m \in leading : m =< n
  BY Zenon DEF StoredLength
<1>4. /\ StoredLength(h, hashes) \in leading
      /\ \A m \in leading : m =< StoredLength(h, hashes)
  <2> HIDE DEF leading
  <2> QED  BY <1>2, <1>3, Zenon
<1> QED  BY <1>4

\* What is found has been saved: a stored hash is one of a saved prompt that
\* shares the blocks up to it, and all the hashes of these blocks are stored.
LEMMA LookupFinds ==
  ASSUME TypeOK, Provenance, NEW text \in Seq(Char), NEW h \in Host,
         NEW n \in 1 .. NumChunks(Len(text))
  PROVE  /\ PromptToHash(text)[n] \in store[h] =>
                \E r \in SavedFor(h) : n \in Shared(text, Content(r))
         /\ \A r \in SavedFor(h) : n \in Shared(text, Content(r)) =>
                \A i \in 1 .. n : PromptToHash(text)[i] \in store[h]
<1>1. NumChunks(Len(text)) \in Nat
      /\ \A i \in 1 .. NumChunks(Len(text)) : PromptToHash(text)[i] = UpTo(text, i)
  BY HashesArePrefixes, Blocks, LenProperties
<1>2. ASSUME NEW r \in Request
      PROVE  /\ Content(r) \in Seq(Char) /\ NumChunks(Len(Content(r))) \in Nat
             /\ DOMAIN promptHash[r] = 1 .. NumChunks(Len(Content(r)))
             /\ \A i \in 1 .. NumChunks(Len(Content(r))) : promptHash[r][i] = UpTo(Content(r), i)
  <2>1. /\ prompt[r] \in Prompts \cup {<<>>}
        /\ promptHash[r] = PromptToHash(Content(r))
    BY DEF TypeOK, Content
  <2>2. Content(r) \in Seq(Char)
    BY <2>1, PromptTypes DEF Content
  <2> QED  BY <2>1, <2>2, HashesArePrefixes, Blocks, LenProperties
<1>3. ASSUME PromptToHash(text)[n] \in store[h]
      PROVE  \E r \in SavedFor(h) : n \in Shared(text, Content(r))
  <2>1. PICK r \in SavedFor(h) : PromptToHash(text)[n] \in Hashes(r)
    BY <1>3 DEF Provenance
  <2>2. r \in Request
    BY DEF SavedFor
  <2>3. PICK j \in 1 .. NumChunks(Len(Content(r))) : UpTo(text, n) = UpTo(Content(r), j)
    BY <1>1, <1>2, <2>1, <2>2 DEF Hashes
  <2> QED  BY <1>2, <2>2, <2>3, MatchesInPlace
<1>4. ASSUME NEW r \in SavedFor(h), n \in Shared(text, Content(r)), NEW i \in 1 .. n
      PROVE  PromptToHash(text)[i] \in store[h]
  <2>1. r \in Request
    BY DEF SavedFor
  <2>2. UpTo(text, i) = UpTo(Content(r), i)
    BY <1>2, <1>4, <2>1, EarlierShared
  <2>3. i \in 1 .. NumChunks(Len(text)) /\ i \in 1 .. NumChunks(Len(Content(r)))
    BY <1>1, <1>2, <1>4, <2>1 DEF Shared
  <2>4. PromptToHash(text)[i] \in Hashes(r)
    BY <1>1, <1>2, <2>1, <2>2, <2>3 DEF Hashes
  <2> QED  BY <2>4 DEF Provenance
<1> QED  BY <1>3, <1>4

\* The greatest element of a set is the only one.
LEMMA ChosenGreatest ==
  ASSUME NEW T \in SUBSET Nat, NEW x \in T, \A m \in T : m =< x
  PROVE  (CHOOSE n \in T : \A m \in T : m =< n) = x
<1>1. ASSUME NEW y \in T, \A m \in T : m =< y
      PROVE  y = x
  <2>1. x =< y /\ y =< x /\ x \in Nat /\ y \in Nat
    BY <1>1
  <2> QED  BY <2>1
<1> QED  BY <1>1

LEMMA LookupIsExact == TypeOK /\ Provenance => LookupExact
<1> SUFFICES ASSUME TypeOK, Provenance, NEW messages \in Prompts, NEW h \in Host
             PROVE  LET text == PromptContent(messages)
                        saved == {r \in Request : stage[r] = "saved" /\ serverIp[r] = h}
                        shared == {0} \cup {SharedBlocks(text, PromptContent(prompt[r])) : r \in saved}
                    IN  StoredLength(h, PromptToHash(text))
                            = CHOOSE n \in shared : \A m \in shared : m =< n
  BY DEF LookupExact
<1> DEFINE text == PromptContent(messages)
           hashes == PromptToHash(text)
           x == StoredLength(h, hashes)
           shared == {0} \cup {SharedBlocks(text, Content(r)) : r \in SavedFor(h)}
<1>1. text \in Seq(Char) /\ Len(hashes) = NumChunks(Len(text)) /\ NumChunks(Len(text)) \in Nat
  BY PromptTypes, Blocks, LenProperties
<1>2. /\ x \in 0 .. Len(hashes)
      /\ \A i \in 1 .. x : hashes[i] \in store[h]
      /\ \A m \in 0 .. Len(hashes) : (\A i \in 1 .. m : hashes[i] \in store[h]) => m =< x
  BY <1>1, StoredLengthGreatest
<1> HIDE DEF x, hashes, text
<1>3. ASSUME NEW r \in SavedFor(h)
      PROVE  LET k == SharedBlocks(text, Content(r))
             IN  /\ k \in Shared(text, Content(r)) /\ k \in Nat /\ k =< x
                 /\ \A m \in Shared(text, Content(r)) : m =< k
  <2> DEFINE k == SharedBlocks(text, Content(r))
  <2>1. Content(r) \in Seq(Char)
    BY PromptTypes DEF Content, SavedFor, TypeOK
  <2>2. k \in Shared(text, Content(r)) /\ \A m \in Shared(text, Content(r)) : m =< k
    BY <1>1, <2>1, SharedBlocksGreatest
  <2>3. k \in 0 .. Len(hashes)
    BY <1>1, <2>2 DEF Shared
  <2> HIDE DEF k
  <2>4. \A i \in 1 .. k : hashes[i] \in store[h]
    <3>1. CASE k = 0
      BY <3>1
    <3>2. CASE k # 0
      <4>1. k \in 1 .. NumChunks(Len(text))
        BY <1>1, <2>3, <3>2
      <4> QED  BY <1>1, <2>2, <4>1, LookupFinds DEF hashes
    <3> QED  BY <3>1, <3>2
  <2>5. k =< x
    BY <1>2, <2>3, <2>4
  <2> QED  BY <1>1, <2>2, <2>3, <2>5 DEF k
<1>4. shared \in SUBSET Nat /\ \A m \in shared : m =< x
  BY <1>1, <1>2, <1>3
<1>5. x \in shared
  <2>1. CASE x = 0
    BY <2>1
  <2>2. CASE x # 0
    <3>1. x \in 1 .. NumChunks(Len(text)) /\ hashes[x] \in store[h]
      BY <1>1, <1>2, <2>2
    <3>2. PICK r \in SavedFor(h) : x \in Shared(text, Content(r))
      BY <1>1, <3>1, LookupFinds DEF hashes
    <3>3. x =< SharedBlocks(text, Content(r)) /\ SharedBlocks(text, Content(r)) =< x
          /\ SharedBlocks(text, Content(r)) \in Nat /\ x \in Nat
      BY <1>1, <1>2, <1>3, <3>2
    <3>4. x = SharedBlocks(text, Content(r))
      BY <3>3
    <3> QED  BY <3>4
  <2> QED  BY <2>1, <2>2
<1>6. x = CHOOSE n \in shared : \A m \in shared : m =< n
  <2> HIDE DEF shared
  <2> QED  BY <1>4, <1>5, ChosenGreatest
<1> QED  BY <1>6, Zenon DEF x, hashes, text, Content, SavedFor

-----------------------------------------------------------------------------
\* The invariant.
CInv == TypeOK /\ Provenance /\ HitHasCause

LEMMA EmptyPrompt == PromptToHash(PromptContent(<<>>)) = <<>>
<1>1. PromptContent(<<>>) = <<>>
  <2>1. FlattenSeq(<<>>) = <<>>
    BY EmptySeq DEF FlattenSeq
  <2>2. [i \in DOMAIN <<>> |-> TextOf(<<>>[i])] = <<>>
    OBVIOUS
  <2> QED  BY <2>1, <2>2, Zenon DEF PromptContent
<1>2. Len(<<>>) = 0
  BY EmptySeq
<1> QED  BY <1>1, <1>2 DEF PromptToHash

LEMMA InitCInv == Init => CInv
<1> SUFFICES ASSUME Init  PROVE CInv
  OBVIOUS
<1>1. TypeOK
  <2>1. Len(<<>>) = 0
    BY EmptySeq
  <2>2. promptHash = [r \in Request |-> PromptToHash(PromptContent(prompt[r]))]
    BY EmptyPrompt DEF Init
  <2> QED  BY <2>1, <2>2 DEF Init, TypeOK, NoHits
<1>2. Provenance
  BY DEF Init, Provenance, SavedFor
<1>3. HitHasCause
  BY DEF Init, HitHasCause, NoHits
<1> QED  BY <1>1, <1>2, <1>3 DEF CInv

\* What a request is told has a saved prompt behind it.
LEMMA ToldHasCause ==
  ASSUME CInv, NEW messages \in Prompts, NEW found \in Locations(PromptToHash(PromptContent(messages)))
  PROVE  /\ found \in [Host -> Nat]
         /\ \A h \in Host :
                /\ found[h] =< Len(PromptToHash(PromptContent(messages)))
                /\ found[h] > 0 => \E other \in answered[h] :
                       SharedBlocks(PromptContent(messages), PromptContent(other)) >= found[h]
<1> DEFINE text == PromptContent(messages)
           hashes == PromptToHash(text)
<1>1. text \in Seq(Char) /\ Len(hashes) = NumChunks(Len(text)) /\ Len(hashes) \in Nat
  BY PromptTypes, Blocks, LenProperties
<1>2. PICK hosts \in SUBSET Host :
          found = [h \in Host |-> IF h \in hosts THEN StoredLength(h, hashes) ELSE 0]
  BY DEF Locations
<1> HIDE DEF hashes, text
<1>3. ASSUME NEW h \in Host
      PROVE  found[h] \in 0 .. Len(hashes) /\ \A i \in 1 .. found[h] : hashes[i] \in store[h]
  BY <1>1, <1>2, StoredLengthGreatest
<1>4. ASSUME NEW h \in Host, found[h] > 0
      PROVE  \E other \in answered[h] : SharedBlocks(text, PromptContent(other)) >= found[h]
  <2>1. found[h] \in 1 .. NumChunks(Len(text)) /\ hashes[found[h]] \in store[h]
    BY <1>1, <1>3, <1>4
  <2>2. PICK r \in SavedFor(h) : found[h] \in Shared(text, Content(r))
    BY <1>1, <2>1, LookupFinds DEF CInv, hashes
  <2>3. Content(r) \in Seq(Char)
    BY PromptTypes DEF CInv, TypeOK, SavedFor, Content
  <2>4. found[h] =< SharedBlocks(text, Content(r)) /\ SharedBlocks(text, Content(r)) \in Nat
    BY <1>1, <2>2, <2>3, SharedBlocksGreatest DEF Shared
  <2>5. prompt[r] \in answered[h]
    BY DEF CInv, Provenance, SavedFor
  <2> QED  BY <2>1, <2>4, <2>5 DEF Content
<1>5. found \in [Host -> Nat]
  BY <1>1, <1>2, <1>3
<1> QED  BY <1>1, <1>3, <1>4, <1>5 DEF hashes, text

LEMMA ProcessRequestCInv ==
  ASSUME CInv, NEW r \in Request, NEW messages \in Prompts, ProcessRequest(r, messages)
  PROVE  CInv'
<1> DEFINE hashes == PromptToHash(PromptContent(messages))
<1>1. /\ stage[r] = "new" /\ stage' = [stage EXCEPT ![r] = "forwarded"]
      /\ prompt' = [prompt EXCEPT ![r] = messages]
      /\ promptHash' = [promptHash EXCEPT ![r] = hashes]
      /\ UNCHANGED <<saves, store, answered>>
  BY DEF ProcessRequest
<1>2. PICK host \in Host : serverIp' = [serverIp EXCEPT ![r] = host]
  BY DEF ProcessRequest
<1>3. PICK told : /\ hits' = [hits EXCEPT ![r] = told]
                  /\ told \in Locations(hashes) \/ told = NoHits
  <2>1. CASE \E found \in Locations(hashes) : hits' = [hits EXCEPT ![r] = found]
    BY <2>1
  <2>2. CASE UNCHANGED hits
    <3>1. hits[r] = NoHits /\ hits \in [Request -> [Host -> Nat]]
      BY <1>1 DEF CInv, Provenance, TypeOK
    <3>2. hits' = [hits EXCEPT ![r] = NoHits]
      BY <2>2, <3>1
    <3> QED  BY <3>2
  <2> QED  BY <2>1, <2>2 DEF ProcessRequest
<1>4. /\ told \in [Host -> Nat] /\ Len(hashes) \in Nat
      /\ \A h \in Host :
             /\ told[h] =< Len(hashes)
             /\ told[h] > 0 => \E other \in answered[h] :
                    SharedBlocks(PromptContent(messages), PromptContent(other)) >= told[h]
  <2>1. Len(hashes) \in Nat
    BY PromptTypes, LenProperties
  <2>2. CASE told \in Locations(hashes)
    BY <2>1, <2>2, ToldHasCause
  <2>3. CASE told = NoHits
    BY <2>1, <2>3 DEF NoHits
  <2> QED  BY <1>3, <2>2, <2>3, <2>1
<1> HIDE DEF hashes
<1>5. TypeOK'
  <2>1. promptHash' = [q \in Request |-> PromptToHash(PromptContent(prompt'[q]))]
    BY <1>1 DEF CInv, TypeOK, hashes
  <2>2. \A q \in Request, h \in Host : hits'[q][h] =< Len(promptHash'[q])
    BY <1>1, <1>3, <1>4 DEF CInv, TypeOK
  <2>3. hits' \in [Request -> [Host -> Nat]]
    BY <1>3, <1>4 DEF CInv, TypeOK
  <2>4. saves' \subseteq {q \in Request : stage'[q] = "answered" /\ promptHash'[q] # <<>>}
    BY <1>1 DEF CInv, TypeOK
  <2> QED  BY <1>1, <1>2, <2>1, <2>2, <2>3, <2>4 DEF CInv, TypeOK
<1>6. Provenance'
  <2>1. \A q \in Request : q # r => /\ stage'[q] = stage[q] /\ prompt'[q] = prompt[q]
                                    /\ promptHash'[q] = promptHash[q] /\ hits'[q] = hits[q]
                                    /\ serverIp'[q] = serverIp[q]
    BY <1>1, <1>2, <1>3 DEF CInv, TypeOK
  <2>2. stage'[r] = "forwarded" /\ serverIp'[r] = host /\ prompt'[r] = messages /\ r \notin saves
    BY <1>1, <1>2 DEF CInv, TypeOK
  <2>3. \A h \in Host : SavedFor(h)' = SavedFor(h)
    BY <1>1, <2>1, <2>2 DEF SavedFor
  <2>4. \A h \in Host : \A q \in SavedFor(h) : Hashes(q)' = Hashes(q)
    BY <1>1, <2>1 DEF SavedFor, Hashes
  <2>5. \A h \in Host : store'[h] = UNION {Hashes(q)' : q \in SavedFor(h)'}
    BY <1>1, <2>3, <2>4 DEF CInv, Provenance
  <2> QED  BY <1>1, <2>1, <2>2, <2>5 DEF CInv, Provenance
<1>7. HitHasCause'
  <2>1. \A q \in Request : q # r => prompt'[q] = prompt[q] /\ hits'[q] = hits[q]
    BY <1>1, <1>3 DEF CInv, TypeOK
  <2>2. prompt'[r] = messages /\ hits'[r] = told
    BY <1>1, <1>3 DEF CInv, TypeOK
  <2> QED  BY <1>1, <1>4, <2>1, <2>2 DEF CInv, HitHasCause
<1> QED  BY <1>5, <1>6, <1>7 DEF CInv

LEMMA EncodeHeadersCInv ==
  ASSUME CInv, NEW r \in Request, NEW ok \in BOOLEAN, EncodeHeaders(r, ok)
  PROVE  CInv'
<1>1. /\ stage[r] = "forwarded" /\ stage' = [stage EXCEPT ![r] = "answered"]
      /\ answered' = IF ok THEN [answered EXCEPT ![serverIp[r]] = @ \cup {prompt[r]}] ELSE answered
      /\ saves' = IF ok /\ promptHash[r] # <<>> THEN saves \cup {r} ELSE saves
      /\ UNCHANGED <<prompt, promptHash, hits, serverIp, store>>
  BY DEF EncodeHeaders, SaveKVCache
<1>2. serverIp[r] \in Host /\ prompt[r] \in Prompts /\ answered \in [Host -> SUBSET Prompts]
  BY <1>1 DEF CInv, TypeOK, Provenance
<1>3. answered' \in [Host -> SUBSET Prompts] /\ \A h \in Host : answered[h] \subseteq answered'[h]
  BY <1>1, <1>2
<1>4. stage'[r] = "answered" /\ \A q \in Request : q # r => stage'[q] = stage[q]
  BY <1>1 DEF CInv, TypeOK
<1>5. r \in saves' => r \in saves \/ prompt[r] \in answered'[serverIp[r]]
  BY <1>1, <1>2
<1>6. TypeOK'
  BY <1>1, <1>3, <1>4 DEF CInv, TypeOK
<1>7. Provenance'
  <2>1. \A h \in Host : SavedFor(h)' = SavedFor(h)
    BY <1>1, <1>4 DEF SavedFor
  <2>2. \A h \in Host : store'[h] = UNION {Hashes(q)' : q \in SavedFor(h)'}
    BY <1>1, <2>1 DEF CInv, Provenance, Hashes
  <2>3. \A q \in Request : q \in saves' \/ stage'[q] = "saved" => prompt[q] \in answered'[serverIp[q]]
    <3> SUFFICES ASSUME NEW q \in Request, q \in saves' \/ stage'[q] = "saved"
                 PROVE  prompt[q] \in answered'[serverIp[q]]
      OBVIOUS
    <3>1. CASE q = r /\ q \notin saves
      BY <1>4, <1>5, <3>1
    <3>2. CASE q \in saves \/ q # r
      <4>1. q \in saves \/ stage[q] = "saved"
        BY <1>1, <1>4, <3>2
      <4>2. stage[q] # "new"
        BY <4>1 DEF CInv, TypeOK
      <4> QED  BY <1>3, <4>1, <4>2 DEF CInv, Provenance
    <3> QED  BY <3>1, <3>2
  <2>4. \A q \in Request : stage'[q] = "new" => stage[q] = "new"
    BY <1>4
  <2>5. \A q \in Request : stage'[q] # "new" => serverIp[q] \in Host /\ prompt[q] \in Prompts
    BY <1>2, <1>4 DEF CInv, Provenance
  <2> QED  BY <1>1, <2>2, <2>3, <2>4, <2>5 DEF CInv, Provenance
<1>8. HitHasCause'
  BY <1>1, <1>3 DEF CInv, HitHasCause
<1> QED  BY <1>6, <1>7, <1>8 DEF CInv

LEMMA SaveArrivesCInv ==
  ASSUME CInv, NEW r \in Request, SaveArrives(r)
  PROVE  CInv'
<1>1. /\ r \in saves /\ stage[r] = "answered" /\ stage' = [stage EXCEPT ![r] = "saved"]
      /\ store' = [store EXCEPT ![serverIp[r]] = @ \cup Hashes(r)]
      /\ saves' = saves \ {r}
      /\ UNCHANGED <<prompt, promptHash, hits, serverIp, answered>>
  BY DEF SaveArrives, CInv, TypeOK, Hashes
<1>2. serverIp[r] \in Host /\ prompt[r] \in answered[serverIp[r]] /\ store \in [Host -> SUBSET Seq(Char)]
  BY <1>1 DEF CInv, TypeOK, Provenance
<1>3. stage'[r] = "saved" /\ \A q \in Request : q # r => stage'[q] = stage[q]
  BY <1>1 DEF CInv, TypeOK
<1>4. Hashes(r) \in SUBSET Seq(Char)
  <2>1. prompt[r] \in Prompts \cup {<<>>} /\ promptHash[r] = PromptToHash(PromptContent(prompt[r]))
    BY DEF CInv, TypeOK
  <2>2. promptHash[r] \in Seq(Seq(Char))
    BY <2>1, PromptTypes
  <2> QED  BY <2>2, LenProperties, ElementOfSeq DEF Hashes
<1>5. TypeOK'
  <2>1. store' \in [Host -> SUBSET Seq(Char)]
    BY <1>1, <1>2, <1>4
  <2>2. saves' \subseteq {q \in Request : stage'[q] = "answered" /\ promptHash'[q] # <<>>}
    BY <1>1, <1>3 DEF CInv, TypeOK
  <2> QED  BY <1>1, <2>1, <2>2 DEF CInv, TypeOK
<1>6. Provenance'
  <2>1. ASSUME NEW h \in Host
        PROVE  store'[h] = UNION {Hashes(q)' : q \in SavedFor(h)'}
    <3>1. store[h] = UNION {Hashes(q) : q \in SavedFor(h)}
      BY DEF CInv, Provenance
    <3>2. \A q : Hashes(q)' = Hashes(q)
      BY <1>1 DEF Hashes
    <3>3. CASE h = serverIp[r]
      <4>1. SavedFor(h)' = SavedFor(h) \cup {r}
        BY <1>1, <1>3, <3>3 DEF SavedFor
      <4>2. store'[h] = store[h] \cup Hashes(r)
        BY <1>1, <1>2, <3>3
      <4> QED  BY <3>1, <3>2, <4>1, <4>2
    <3>4. CASE h # serverIp[r]
      <4>1. SavedFor(h)' = SavedFor(h)
        BY <1>1, <1>3, <3>4 DEF SavedFor
      <4>2. store'[h] = store[h]
        BY <1>1, <1>2, <3>4
      <4> QED  BY <3>1, <3>2, <4>1, <4>2
    <3> QED  BY <3>3, <3>4
  <2>2. \A q \in Request : stage'[q] = "new" <=> stage[q] = "new"
    BY <1>1, <1>3
  <2>3. \A q \in Request : q \in saves' \/ stage'[q] = "saved" => q \in saves \/ stage[q] = "saved"
    BY <1>1, <1>3
  <2> QED  BY <1>1, <2>1, <2>2, <2>3 DEF CInv, Provenance
<1>7. HitHasCause'
  BY <1>1 DEF CInv, HitHasCause
<1> QED  BY <1>5, <1>6, <1>7 DEF CInv

LEMMA NextCInv == CInv /\ [Next]_vars => CInv'
<1> SUFFICES ASSUME CInv, [Next]_vars  PROVE CInv'
  OBVIOUS
<1>1. ASSUME NEW r \in Request, SaveLost(r)  PROVE CInv'
  <2>1. TypeOK'
    BY <1>1 DEF SaveLost, CInv, TypeOK
  <2>2. Provenance'
    BY <1>1 DEF SaveLost, CInv, Provenance, SavedFor, Hashes
  <2>3. HitHasCause'
    BY <1>1 DEF SaveLost, CInv, HitHasCause
  <2> QED  BY <2>1, <2>2, <2>3 DEF CInv
<1>2. CASE UNCHANGED vars
  <2>1. TypeOK' /\ HitHasCause'
    BY <1>2 DEF vars, CInv, TypeOK, HitHasCause
  <2>2. Provenance'
    BY <1>2 DEF vars, CInv, Provenance, SavedFor, Hashes
  <2> QED  BY <2>1, <2>2 DEF CInv
<1> QED  BY <1>1, <1>2, ProcessRequestCInv, EncodeHeadersCInv, SaveArrivesCInv DEF Next

LEMMA CInvAlways == Spec => []CInv
BY InitCInv, NextCInv, PTL DEF Spec

\* For any prompts and any length of a block, the requests and the caches keep
\* their types, and a save is under way only for an answered request with hashes.
THEOREM CacheTypes == Spec => []TypeOK
<1>1. CInv => TypeOK
  BY DEF CInv
<1> QED  BY <1>1, CInvAlways, PTL

\* For any prompts, hosts and requests, in any order of arrival and loss of the
\* saves: a look-up by hashes finds exactly the blocks that a prompt has in
\* common with one that was saved for the host.
THEOREM LookupsAreExact == Spec => []LookupExact
<1>1. CInv => LookupExact
  BY LookupIsExact DEF CInv
<1> QED  BY <1>1, CInvAlways, PTL

\* A request is told of blocks on a host only if the host has answered a prompt
\* with these blocks, however late the saves arrive.
THEOREM HitsHaveCauses == Spec => []HitHasCause
<1>1. CInv => HitHasCause
  BY DEF CInv
<1> QED  BY <1>1, CInvAlways, PTL
=============================================================================
