------------------------------ MODULE Routing -------------------------------
(***************************************************************************)
(* pkg/config/config.go with its users in pkg/filter and pkg/transcoder:   *)
(* configurations are pushed, initialised, validated and merged; each      *)
(* request keeps the one that it began with, finds its rule there by       *)
(* headers, and from the model's load balancing rule what its choice of a  *)
(* host and its accounting are based on.                                   *)
(*                                                                         *)
(* A header is a <<key, value>> pair, a rule's headers are a set of them.  *)
(***************************************************************************)
EXTENDS Naturals, Sequences, FiniteSets

CONSTANTS Request, Model,
          Rule,          \* the routing rules that occur
          LBRule,        \* the load balancing rules that occur
          RawConfigs,    \* the configurations that are pushed
          RequestHeaders,\* the headers that requests come with
          HostLabels,    \* the hosts of each cluster with their labels
          CenterEnabled, \* Metadata-Center is configured
          MaxPushes,     \* bound on the pushes of configurations
          NoConfig, NoRule, NoHost

\* Config as it is read from JSON: whether a protocol is given, and two maps
\* from the models, of their routing rules and of their load balancing rules.
IsRawConfig(raw) ==
    /\ raw.protocol \in BOOLEAN
    /\ DOMAIN raw.modelMappingRule \subseteq Model
    /\ \A m \in DOMAIN raw.modelMappingRule : raw.modelMappingRule[m] \in Seq(Rule)
    /\ DOMAIN raw.lbMappingRule \subseteq Model
    /\ \A m \in DOMAIN raw.lbMappingRule : raw.lbMappingRule[m] \in LBRule

LBRules == [loadAware : BOOLEAN, cacheAware : BOOLEAN]

\* The rules that occur, after the default backend has been filled in, too.
ASSUME RoutingAssumption ==
    /\ \A rule \in Rule :
           /\ rule = [headers |-> rule.headers, backend |-> rule.backend,
                      cluster |-> rule.cluster, labels |-> rule.labels]
           /\ IsFiniteSet(rule.headers)
           /\ [rule EXCEPT !.backend = "triton"] \in Rule
    /\ LBRule \subseteq LBRules
    /\ \A raw \in RawConfigs : IsRawConfig(raw)
    /\ CenterEnabled \in BOOLEAN
    /\ MaxPushes \in Nat
    /\ NoRule \notin Rule

VARIABLES listener,   \* the configuration of the listener, the parent
          route,      \* the configuration of the route, the child
          pushes,     \* how many have been pushed
          stage,      \* where each request stands
          conf,       \* Filter.config of each request
          data,       \* its RequestData and Filter.serverIp
          added,      \* the add of its load: none, dropped by the full queue,
                      \* or recorded (Filter.isIncreaseRecorded)
          released    \* its load was deleted when it was destroyed

configVars == <<listener, route, pushes>>
requestVars == <<stage, conf, data, added, released>>
vars == <<configVars, requestVars>>

-----------------------------------------------------------------------------
Specificity(rule) == Cardinality(rule.headers)

\* Mutant: the comparison of SortTuples the other way round.
Ascending(rules) ==
    {order \in [DOMAIN rules -> DOMAIN rules] :
        \A i, j \in DOMAIN rules :
            i < j => /\ order[i] # order[j]
                     /\ Specificity(rules[order[i]]) =< Specificity(rules[order[j]])}

\* SortTuples: the rules in descending number of headers. sort.Slice is not
\* stable: rules with as many headers come in any order.
SortTuples(rules) ==
    {order \in [DOMAIN rules -> DOMAIN rules] :
        \A i, j \in DOMAIN rules :
            i < j => /\ order[i] # order[j]
                     /\ Specificity(rules[order[i]]) >= Specificity(rules[order[j]])}

WithDefault(rule) == IF rule.backend = "" THEN [rule EXCEPT !.backend = "triton"] ELSE rule

\* Mutant: the validation works on copies of the rules.
KeepRules(rules) == rules

\* validateRules fills in the default backend in place. Init ran before it, but
\* the tuples point to the same rules.
DefaultBackends(rules) == [i \in DOMAIN rules |-> WithDefault(rules[i])]

\* validateRules: one cluster and one backend for all the rules of a model.
ValidRules(rules) ==
    /\ Len(rules) > 0
    /\ \A i \in DOMAIN rules :
           /\ rules[i].cluster = rules[1].cluster
           /\ WithDefault(rules[i]).backend = WithDefault(rules[1]).backend

\* Parse: whether Envoy takes the configuration.
Valid(raw) ==
    /\ raw.protocol
    /\ \A m \in DOMAIN raw.modelMappingRule : ValidRules(raw.modelMappingRule[m])

\* buildModelMappings and validateRules: what a valid configuration becomes.
ModelMappings(raw) ==
    LET rulesOf == raw.modelMappingRule
        Orders == UNION {SortTuples(rulesOf[m]) : m \in DOMAIN rulesOf}
    IN  {[m \in DOMAIN rulesOf |->
             [i \in DOMAIN order[m] |-> DefaultBackends(rulesOf[m])[order[m][i]]]] :
         order \in {o \in [DOMAIN rulesOf -> Orders] :
                       \A m \in DOMAIN rulesOf : o[m] \in SortTuples(rulesOf[m])}}

\* ConfigParser.Parse: LLMProxyConfig.
Parsed(raw) == {[modelMappings |-> mappings, lbMappingConfigs |-> raw.lbMappingRule] :
                    mappings \in ModelMappings(raw)}

\* Mutant: without a child nothing is left.
ChildOnly(parent, child) == child

\* Merge: the child, if there is one, replaces the parent as a whole.
Merge(parent, child) == IF child # NoConfig THEN child ELSE parent

-----------------------------------------------------------------------------
\* GetCandidateRule: the first rule all of whose headers the request has. A rule
\* without headers matches every request.
Matches(rule, headers) == rule.headers \subseteq headers

\* Mutant: the loop ends at the first rule that does not match.
FirstRuleOnly(tuples, headers) ==
    IF Matches(tuples[1], headers) THEN tuples[1] ELSE NoRule

GetCandidateRule(tuples, headers) ==
    LET matching == {i \in DOMAIN tuples : Matches(tuples[i], headers)}
    IN  IF matching = {} THEN NoRule
        ELSE tuples[CHOOSE i \in matching : \A j \in matching : i =< j]

NoContext == [key \in {} |-> TRUE]

\* Mutant: the balancer is left to its defaults.
EmptyContext(cfg, model) == NoContext

\* initLoadBalanceContext: what the balancer gets to know. No caller puts
\* KeyLbSelector into it.
LoadBalanceContext(cfg, model) ==
    IF model \in DOMAIN cfg.lbMappingConfigs
    THEN [loadAware |-> cfg.lbMappingConfigs[model].loadAware,
          cacheAware |-> cfg.lbMappingConfigs[model].cacheAware]
    ELSE NoContext

\* GetValueFromCtx.
ValueFrom(ctx, key, default) == IF key \in DOMAIN ctx THEN ctx[key] ELSE default

\* filterHostsBySelector.
FilterHosts(hosts, selector) == {h \in hosts : selector \subseteq h.labels}

\* isLoadAwareEnabled and isCacheAwareEnabled of the filter.
LoadAware(cfg, model) ==
    IF model \in DOMAIN cfg.lbMappingConfigs
    THEN cfg.lbMappingConfigs[model].loadAware ELSE CenterEnabled

CacheAware(cfg, model) ==
    IF model \in DOMAIN cfg.lbMappingConfigs
    THEN cfg.lbMappingConfigs[model].cacheAware ELSE CenterEnabled

-----------------------------------------------------------------------------
NoData == [model |-> "", headers |-> {}, rule |-> NoRule, host |-> NoHost,
           hashed |-> FALSE, load |-> "none", cache |-> "none"]

Init ==
    /\ listener = NoConfig /\ route = NoConfig
    /\ pushes = 0
    /\ stage = [r \in Request |-> "new"]
    /\ conf = [r \in Request |-> NoConfig]
    /\ data = [r \in Request |-> NoData]
    /\ added = [r \in Request |-> "none"]
    /\ released = [r \in Request |-> FALSE]

\* Envoy pushes a configuration. One that is not valid changes nothing.
PushListener(raw) ==
    /\ pushes < MaxPushes
    /\ pushes' = pushes + 1
    /\ \/ Valid(raw) /\ listener' \in Parsed(raw)
       \/ ~Valid(raw) /\ UNCHANGED listener
    /\ UNCHANGED <<route, requestVars>>

PushRoute(raw) ==
    /\ pushes < MaxPushes
    /\ pushes' = pushes + 1
    /\ \/ Valid(raw) /\ route' \in Parsed(raw)
       \/ ~Valid(raw) /\ UNCHANGED route
    /\ UNCHANGED <<listener, requestVars>>

\* Factory: the request keeps the configuration that is in force now.
NewRequest(r) ==
    /\ stage[r] = "new" /\ listener # NoConfig
    /\ conf' = [conf EXCEPT ![r] = Merge(listener, route)]
    /\ stage' = [stage EXCEPT ![r] = "body"]
    /\ UNCHANGED <<configVars, data, added, released>>

\* GetRequestData: the rule of a request. A configuration without any rule lets
\* every model pass, with no cluster; otherwise the model has to be there.
TargetRules(cfg, model, headers) ==
    IF model \in DOMAIN cfg.modelMappings
    THEN {GetCandidateRule(cfg.modelMappings[model], headers)} \ {NoRule}
    ELSE {}

BadRequest(r, model, headers) ==
    /\ stage[r] = "body"
    /\ DOMAIN conf[r].modelMappings # {}
    /\ TargetRules(conf[r], model, headers) = {}
    /\ data' = [data EXCEPT ![r].model = model, ![r].headers = headers]
    /\ stage' = [stage EXCEPT ![r] = "badRequest"]
    /\ UNCHANGED <<configVars, conf, added, released>>

\* The hosts that ChooseHost leaves to its choice.
Choosable(cluster, ctx) == FilterHosts(HostLabels[cluster], ValueFrom(ctx, "selector", {}))

\* QueryLoad and QueryKVCache, if they are called: they may fail, and the client
\* of a disabled Metadata-Center always fails.
Answers(asked) ==
    IF ~asked THEN {"none"} ELSE IF CenterEnabled THEN {"known", "failed"} ELSE {"failed"}

\* addRequest: without load-awareness nothing is sent; the queue may be full; the
\* client of a disabled Metadata-Center takes everything.
AddResults(cfg, model) ==
    IF ~LoadAware(cfg, model) THEN {"none"}
    ELSE IF CenterEnabled THEN {"recorded", "dropped"} ELSE {"recorded"}

\* processRequest after GetRequestData: the hash of a prompt that is not empty,
\* the choice of a host and the add. Without hosts the request is answered 404
\* before anything is asked. If the load is not known, every host remains for
\* the choice, and the cache is not asked for; without hashes it is not either.
ProcessRequest(r, model, headers, prompt) ==
    /\ stage[r] = "body"
    /\ \E rule \in TargetRules(conf[r], model, headers) :
           LET ctx == LoadBalanceContext(conf[r], model)
               hashed == prompt /\ CacheAware(conf[r], model)
               hosts == Choosable(rule.cluster, ctx)
               Found(host, load, cache) ==
                   [model |-> model, headers |-> headers, rule |-> rule, host |-> host,
                    hashed |-> hashed, load |-> load, cache |-> cache]
           IN  \/ \E host \in hosts,
                     load \in Answers(ValueFrom(ctx, "loadAware", CenterEnabled)),
                     add \in AddResults(conf[r], model) :
                  \E cache \in Answers(/\ load = "known" /\ hashed
                                       /\ ValueFrom(ctx, "cacheAware", CenterEnabled)) :
                      /\ data' = [data EXCEPT ![r] = Found(host, load, cache)]
                      /\ added' = [added EXCEPT ![r] = add]
                      /\ stage' = [stage EXCEPT ![r] = "forwarded"]
               \/ /\ hosts = {}
                  /\ data' = [data EXCEPT ![r] = Found(NoHost, "none", "none")]
                  /\ stage' = [stage EXCEPT ![r] = "noUpstream"]
                  /\ UNCHANGED added
    /\ UNCHANGED <<configVars, conf, released>>

\* A configuration without rules: there is no cluster, and so there are no hosts.
NoUpstream(r, model, headers) ==
    /\ stage[r] = "body"
    /\ DOMAIN conf[r].modelMappings = {}
    /\ data' = [data EXCEPT ![r].model = model, ![r].headers = headers]
    /\ stage' = [stage EXCEPT ![r] = "noUpstream"]
    /\ UNCHANGED <<configVars, conf, added, released>>

\* Mutant: the configuration in force is asked.
MustReleaseNow(r) ==
    added[r] = "recorded" /\ LoadAware(Merge(listener, route), data[r].model)

\* OnDestroy and decreaseRequest, guards: by the same rule of the same configuration.
MustRelease(r) ==
    added[r] = "recorded" /\ LoadAware(conf[r], data[r].model)

\* OnDestroy.
Destroy(r) ==
    /\ stage[r] \in {"forwarded", "badRequest", "noUpstream"}
    /\ released' = [released EXCEPT ![r] = MustRelease(r)]
    /\ stage' = [stage EXCEPT ![r] = "destroyed"]
    /\ UNCHANGED <<configVars, conf, data, added>>

Next ==
    \/ \E raw \in RawConfigs : PushListener(raw) \/ PushRoute(raw)
    \/ \E r \in Request :
           \/ NewRequest(r)
           \/ \E model \in Model, headers \in RequestHeaders :
                  \/ BadRequest(r, model, headers)
                  \/ \E prompt \in BOOLEAN : ProcessRequest(r, model, headers, prompt)
                  \/ NoUpstream(r, model, headers)
           \/ Destroy(r)

Spec == Init /\ [][Next]_vars

-----------------------------------------------------------------------------
ParsedConfigs == UNION {Parsed(raw) : raw \in {x \in RawConfigs : Valid(x)}}

Stages == {"new", "body", "badRequest", "noUpstream", "forwarded", "destroyed"}
AddStates == {"none", "dropped", "recorded"}

\* The types of the routing's state; a request has a configuration that was
\* accepted from its first callback to its last.
TypeOK ==
    /\ listener \in ParsedConfigs \cup {NoConfig}
    /\ route \in ParsedConfigs \cup {NoConfig}
    /\ pushes \in 0 .. MaxPushes
    /\ stage \in [Request -> Stages]
    /\ \A r \in Request : IF stage[r] = "new" THEN conf[r] = NoConfig
                                             ELSE conf[r] \in ParsedConfigs
    /\ \A r \in Request : data[r].model \in Model \cup {""}
    /\ added \in [Request -> AddStates]
    /\ released \in [Request -> BOOLEAN]

Routed(r) == data[r].rule # NoRule

TuplesOf(r) ==
    {conf[r].modelMappings[data[r].model][i] :
        i \in DOMAIN conf[r].modelMappings[data[r].model]}

\* A request gets a rule that all its headers allow, and no rule of the model
\* that would also do asks for more headers, in whatever order the rules were
\* configured (SortTuples, GetCandidateRule).
MostSpecificWins ==
    \A r \in Request : Routed(r) =>
        /\ data[r].rule \in TuplesOf(r) /\ Matches(data[r].rule, data[r].headers)
        /\ \A other \in TuplesOf(r) :
               Matches(other, data[r].headers) => Specificity(other) =< Specificity(data[r].rule)

\* A request is refused for want of a rule only when no rule of its model fits,
\* so that a rule without headers catches the rest (GetRequestData).
RefusedOnlyUnmatched ==
    \A r \in Request :
        stage[r] = "badRequest" /\ data[r].model \in DOMAIN conf[r].modelMappings =>
            \A rule \in TuplesOf(r) : ~Matches(rule, data[r].headers)

\* All the requests of a model under one configuration go to one cluster and
\* speak one protocol, which is never left open, whichever rules they match
\* (validateRules, after Init has built the tuples).
OneClusterPerModel ==
    \A r, q \in Request :
        Routed(r) /\ Routed(q) /\ conf[r] = conf[q] /\ data[r].model = data[q].model =>
            /\ data[r].rule.cluster = data[q].rule.cluster
            /\ data[r].rule.backend = data[q].rule.backend
            /\ data[r].rule.backend # ""

\* The balancer asks for the load exactly when the filter goes on to add to it,
\* so a request is counted or chosen by load without the other only where the
\* query failed or the queue was full; and where the load is known, the cache is
\* asked for every prompt that was hashed. The balancer reads its context, the
\* filter its configuration (initLoadBalanceContext, isLoadAwareEnabled and
\* isCacheAwareEnabled of both packages).
AskedAsAdded ==
    \A r \in Request : stage[r] = "forwarded" =>
        /\ data[r].load # "none" <=> added[r] # "none"
        /\ data[r].load = "known" /\ data[r].hashed => data[r].cache # "none"

\* A request whose add was recorded, and no other, is deleted when it is over,
\* whatever configurations were pushed in between (Factory keeps the
\* configuration of the request).
ReleasedAsAdded ==
    \A r \in Request : stage[r] = "destroyed" => (released[r] <=> added[r] = "recorded")

\* src/docs/design.md:643: hosts are filtered by the label selector of the
\* request's rule before the choice.
ChosenHostHasLabels ==
    \A r \in Request : data[r].host # NoHost => data[r].rule.labels \subseteq data[r].host.labels
=============================================================================
