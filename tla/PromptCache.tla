---------------------------- MODULE PromptCache -----------------------------
(***************************************************************************)
(* How a request finds the hosts that have its prompt in their KV cache:   *)
(* pkg/transcoder/openai extracts the prompt, pkg/hash hashes its blocks,  *)
(* the balancer asks Metadata-Center who has saved these hashes, and when  *)
(* the upstream answers, pkg/filter has the hashes saved for its host,     *)
(* through the queue, late or never.                                       *)
(*                                                                         *)
(* A text is a sequence of characters.  The 64-bit sum of what was written *)
(* to the hasher is taken to be free of collisions.                        *)
(***************************************************************************)
EXTENDS Naturals, SequencesExt, FiniteSets

CONSTANTS Request, Host,
          Char,
          Prompts,     \* the messages that requests come with
          ChunkLen,    \* DefaultTextChunkLen
          TopK,        \* DefaultTopK, how many hosts a query asks for
          NoHost

\* A message is the sequence of the parts of its content.
Part == [type : {"text", "image_url"}, text : Seq(Char)]

ASSUME CacheAssumption ==
    /\ Prompts \subseteq Seq(Seq(Part))
    /\ ChunkLen \in Nat \ {0} /\ TopK \in Nat \ {0}

VARIABLES stage,     \* where each request stands
          prompt,    \* its messages
          promptHash,
          hits,      \* what it was told: the blocks that each host has
          serverIp,
          saves,     \* the calls of SaveKVCache on their way
          store,     \* Metadata-Center: the hashes saved for each host
          answered   \* the prompts that each host has answered

vars == <<stage, prompt, promptHash, hits, serverIp, saves, store, answered>>

-----------------------------------------------------------------------------
\* extractPromptContext: the text parts of all the messages, one after the
\* other; roles, images and the ends of messages leave no trace.
TextOf(part) == IF part.type = "text" THEN part.text ELSE <<>>

PromptContent(messages) ==
    LET parts == FlattenSeq(messages)
    IN  FlattenSeq([i \in DOMAIN parts |-> TextOf(parts[i])])

Sum64(written) == written

NumChunks(plen) == (plen + ChunkLen - 1) \div ChunkLen

\* The i-th block; the last one may be shorter.
Chunk(text, i) ==
    LET end == i * ChunkLen
    IN  SubSeq(text, (i - 1) * ChunkLen + 1, IF end > Len(text) THEN Len(text) ELSE end)

\* Mutant: the hasher is reset for each block.
BlockHashes(text) == [i \in 1 .. NumChunks(Len(text)) |-> Sum64(Chunk(text, i))]

\* PromptToHash: the hasher is written to block by block, and its sum is taken
\* after each; a text of one block is written at once.
PromptToHash(text) ==
    LET n == NumChunks(Len(text))
        written[i \in 0 .. n] == IF i = 0 THEN <<>> ELSE written[i - 1] \o Chunk(text, i)
    IN  CASE Len(text) = 0 -> <<>>
          [] Len(text) \in 1 .. ChunkLen -> <<Sum64(text)>>
          [] OTHER -> [i \in 1 .. n |-> Sum64(written[i])]

\* Metadata-Center: how many of the leading hashes are stored for a host.
StoredLength(host, hashes) ==
    LET leading == {n \in 0 .. Len(hashes) : \A i \in 1 .. n : hashes[i] \in store[host]}
    IN  CHOOSE n \in leading : \A m \in leading : m =< n

NoHits == [h \in Host |-> 0]

\* QueryKVCache and getCacheStats: TopK hosts, the others have no hits.
Locations(hashes) ==
    {[h \in Host |-> IF h \in found THEN StoredLength(h, hashes) ELSE 0] :
        found \in {s \in SUBSET Host : Cardinality(s) =< TopK}}

-----------------------------------------------------------------------------
Init ==
    /\ stage = [r \in Request |-> "new"]
    /\ prompt = [r \in Request |-> <<>>]
    /\ promptHash = [r \in Request |-> <<>>]
    /\ hits = [r \in Request |-> NoHits]
    /\ serverIp = [r \in Request |-> NoHost]
    /\ saves = {}
    /\ store = [h \in Host |-> {}]
    /\ answered = [h \in Host |-> {}]

\* processRequest: the prompt is hashed, the caches are queried, which may fail
\* and is not done for an empty prompt, and one of the hosts is chosen.
ProcessRequest(r, messages) ==
    LET hashes == PromptToHash(PromptContent(messages))
    IN  /\ stage[r] = "new"
        /\ stage' = [stage EXCEPT ![r] = "forwarded"]
        /\ prompt' = [prompt EXCEPT ![r] = messages]
        /\ promptHash' = [promptHash EXCEPT ![r] = hashes]
        /\ \/ hashes # <<>> /\ \E found \in Locations(hashes) :
                                   hits' = [hits EXCEPT ![r] = found]
           \/ UNCHANGED hits
        /\ \E h \in Host : serverIp' = [serverIp EXCEPT ![r] = h]
        /\ UNCHANGED <<saves, store, answered>>

\* Mutant: failures are saved, too.
SaveAny(r, ok) ==
    saves' = IF promptHash[r] # <<>> THEN saves \cup {r} ELSE saves

\* Mutant: without looking at the hashes.
SaveEmpty(r, ok) == saves' = IF ok THEN saves \cup {r} ELSE saves

\* saveKVCache: called for an answer below 400, with what was hashed.
SaveKVCache(r, ok) ==
    saves' = IF ok /\ promptHash[r] # <<>> THEN saves \cup {r} ELSE saves

\* EncodeHeaders: the upstream answers, with a status below 400 or not.
EncodeHeaders(r, ok) ==
    /\ stage[r] = "forwarded"
    /\ stage' = [stage EXCEPT ![r] = "answered"]
    /\ answered' = IF ok THEN [answered EXCEPT ![serverIp[r]] = @ \cup {prompt[r]}]
                         ELSE answered
    /\ SaveKVCache(r, ok)
    /\ UNCHANGED <<prompt, promptHash, hits, serverIp, store>>

\* A save arrives at Metadata-Center.
SaveArrives(r) ==
    /\ r \in saves
    /\ store' = [store EXCEPT ![serverIp[r]] =
                    @ \cup {promptHash[r][i] : i \in DOMAIN promptHash[r]}]
    /\ saves' = saves \ {r}
    /\ stage' = [stage EXCEPT ![r] = "saved"]
    /\ UNCHANGED <<prompt, promptHash, hits, serverIp, answered>>

\* Or it is lost: the queue was full, or the call failed.
SaveLost(r) ==
    /\ r \in saves
    /\ saves' = saves \ {r}
    /\ UNCHANGED <<stage, prompt, promptHash, hits, serverIp, store, answered>>

Next ==
    \E r \in Request :
        \/ \E messages \in Prompts : ProcessRequest(r, messages)
        \/ \E ok \in BOOLEAN : EncodeHeaders(r, ok)
        \/ SaveArrives(r)
        \/ SaveLost(r)

Spec == Init /\ [][Next]_vars

-----------------------------------------------------------------------------
\* The types of the requests and the caches; a save is under way only for a
\* request that was answered and has hashes.
TypeOK ==
    /\ stage \in [Request -> {"new", "forwarded", "answered", "saved"}]
    /\ prompt \in [Request -> Prompts \cup {<<>>}]
    /\ promptHash = [r \in Request |-> PromptToHash(PromptContent(prompt[r]))]
    /\ hits \in [Request -> [Host -> Nat]]
    /\ \A r \in Request, h \in Host : hits[r][h] =< Len(promptHash[r])
    /\ serverIp \in [Request -> Host \cup {NoHost}]
    /\ saves \subseteq {r \in Request : stage[r] = "answered" /\ promptHash[r] # <<>>}
    /\ store \in [Host -> SUBSET Seq(Char)]
    /\ answered \in [Host -> SUBSET Prompts]

\* What hashes are to stand for: two texts share their first n blocks if these
\* end at the same place and hold the same characters.
SharedBlocks(p, q) ==
    LET EndOf(text, n) == IF n * ChunkLen > Len(text) THEN Len(text) ELSE n * ChunkLen
        shared == {n \in 0 .. NumChunks(Len(p)) :
                      /\ n =< NumChunks(Len(q))
                      /\ EndOf(p, n) = EndOf(q, n)
                      /\ \A i \in 1 .. EndOf(p, n) : p[i] = q[i]}
    IN  CHOOSE n \in shared : \A m \in shared : m =< n

\* A look-up by hashes finds, for every prompt and every host, exactly the
\* blocks that the prompt has in common with one saved for the host: no block
\* matches out of its place, and a saved one is always found, also the last,
\* shorter one (PromptToHash).
LookupExact ==
    \A messages \in Prompts, h \in Host :
        LET text == PromptContent(messages)
            saved == {r \in Request : stage[r] = "saved" /\ serverIp[r] = h}
            shared == {0} \cup {SharedBlocks(text, PromptContent(prompt[r])) : r \in saved}
        IN  StoredLength(h, PromptToHash(text)) = CHOOSE n \in shared : \A m \in shared : m =< n

\* Whenever a request is told that a host has blocks of its prompt, the host
\* has answered a prompt with these blocks before (saveKVCache after the
\* answer, whatever is late or lost).
HitHasCause ==
    \A r \in Request, h \in Host :
        hits[r][h] > 0 =>
            \E messages \in answered[h] :
                SharedBlocks(PromptContent(prompt[r]), PromptContent(messages)) >= hits[r][h]
=============================================================================
