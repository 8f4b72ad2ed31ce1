----------------------------- MODULE MCRouting -----------------------------
\* Rules that overlap in every way two headers allow, in both orders, with and
\* without a backend, and configurations that the validation must refuse.
EXTENDS Routing, TLC

CONSTANTS r1, r2

MCRequest == {r1, r2}
Symmetry == Permutations(MCRequest)

A == <<"scene", "a">>
B == <<"tier", "b">>
A2 == <<"scene", "b">>
MCRequestHeaders == {{}, {A}, {A, B}, {A2, B}}

R(headers, backend, cluster, labels) ==
    [headers |-> headers, backend |-> backend, cluster |-> cluster, labels |-> labels]
Plain(headers) == R(headers, "", "c1", {})

MCRule == {R(h, b, c, l) : h \in SUBSET {A, B}, b \in {"", "triton", "vllm"},
                           c \in {"c1", "c2", "c3"}, l \in SUBSET {"gpu"}}

LB(load, cache) == [loadAware |-> load, cacheAware |-> cache]
MCLBRule == {LB(x, y) : x, y \in BOOLEAN}

With(rules, lb) == [protocol |-> TRUE,
                    modelMappingRule |-> [m \in {"m1"} |-> rules],
                    lbMappingRule |-> lb]
NoLB == [m \in {} |-> LB(TRUE, TRUE)]
OneLB(load, cache) == [m \in {"m1"} |-> LB(load, cache)]

MCRawConfigs ==
    {With(<<Plain({})>>, NoLB),
     With(<<Plain({}), Plain({A}), Plain({A, B})>>, OneLB(TRUE, TRUE)),
     With(<<Plain({B}), R({A}, "triton", "c1", {"gpu"})>>, OneLB(FALSE, TRUE)),
     With(<<R({A}, "vllm", "c2", {"gpu"}), R({}, "vllm", "c2", {})>>, OneLB(TRUE, FALSE)),
     With(<<R({}, "vllm", "c3", {})>>, NoLB),
     With(<<Plain({A}), R({B}, "", "c2", {})>>, NoLB),
     With(<<Plain({}), R({A}, "vllm", "c1", {})>>, NoLB),
     With(<<>>, NoLB),
     [With(<<Plain({})>>, NoLB) EXCEPT !.protocol = FALSE],
     [protocol |-> TRUE, modelMappingRule |-> [m \in {} |-> <<>>], lbMappingRule |-> NoLB]}

\* One cluster has a host with the label and one without, one has one host, and
\* one has none.
MCHostLabels ==
    [c \in {"c1", "c2", "c3"} |->
        CASE c = "c1" -> {[ip |-> "h1", labels |-> {"gpu"}], [ip |-> "h2", labels |-> {}]}
          [] c = "c2" -> {[ip |-> "h3", labels |-> {}]}
          [] c = "c3" -> {}]
=============================================================================
