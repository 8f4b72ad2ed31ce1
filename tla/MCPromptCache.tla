--------------------------- MODULE MCPromptCache ---------------------------
\* Blocks of two characters. The prompts share no block, one, or all; they end
\* with a block or within one; two have the same blocks in another order; one
\* is split over messages and parts; one has no text.
EXTENDS PromptCache

CONSTANTS r1, r2, r3, h1, h2

MCRequest == {r1, r2, r3}
MCHost == {h1, h2}
Symmetry == Permutations(MCRequest) \cup Permutations(MCHost)

MCChar == {"a", "b", "c", "d", "e"}
Text(t) == [type |-> "text", text |-> t]
Image == [type |-> "image_url", text |-> <<>>]
One(t) == << <<Text(t)>> >>

MCPrompts ==
    {One(<<"a">>),
     One(<<"a", "b">>),
     One(<<"a", "b", "c", "d">>),
     One(<<"c", "d", "a", "b">>),
     One(<<"a", "b", "c">>),
     << <<Text(<<"a", "b", "c">>), Image>>, <<Text(<<"d", "e">>)>> >>,
     << <<Image>> >>}
=============================================================================
