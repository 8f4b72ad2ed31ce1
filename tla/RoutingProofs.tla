---------------------------- MODULE RoutingProofs ---------------------------
(***************************************************************************)
(* Proofs about Routing, for any requests, models, rules, configurations   *)
(* and headers: what the sort and the validation make of a configuration   *)
(* (ParsedSound), which rule a request gets (FirstMatch), and from both    *)
(* the routing properties and the agreement of queries and adds.           *)
(***************************************************************************)
EXTENDS Routing, FiniteSetTheorems, WellFoundedInduction, TLAPS

\* Every set of naturals that is not empty has a least element.
LEMMA LeastElement ==
  ASSUME NEW T \in SUBSET Nat, T # {}
  PROVE  \E i \in T : \A j \in T : i =< j
<1>1. IsWellFoundedOn({p \in Nat \X Nat : p[1] < p[2]}, Nat)
  BY NatLessThanWellFounded, Zenon DEF OpToRel
<1>2. PICK i \in T : \A j \in T : <<j, i>> \notin {p \in Nat \X Nat : p[1] < p[2]}
  BY <1>1, WFMin, Zenon
<1>3. \A j \in T : ~(j < i)
  BY <1>2
<1> QED  BY <1>3

LEMMA WithDefaultKeeps ==
  ASSUME NEW rule \in Rule
  PROVE  /\ WithDefault(rule) \in Rule
         /\ WithDefault(rule).headers = rule.headers
         /\ WithDefault(rule).cluster = rule.cluster
         /\ WithDefault(rule).backend # ""
         /\ Specificity(rule) \in Nat
         /\ Specificity(WithDefault(rule)) = Specificity(rule)
<1>1. /\ WithDefault(rule) \in Rule
      /\ WithDefault(rule).headers = rule.headers
      /\ WithDefault(rule).cluster = rule.cluster
      /\ WithDefault(rule).backend # ""
  BY RoutingAssumption DEF WithDefault
<1>2. Specificity(rule) \in Nat
  BY RoutingAssumption, FS_CardinalityType DEF Specificity
<1> QED  BY <1>1, <1>2 DEF Specificity

-----------------------------------------------------------------------------
\* The tuples of a model: sorted, with one cluster and one backend.
SoundTuples(tuples) ==
    /\ DOMAIN tuples \subseteq Nat
    /\ \A i \in DOMAIN tuples : tuples[i] \in Rule /\ tuples[i].backend # ""
    /\ \A i, j \in DOMAIN tuples :
           /\ i < j => Specificity(tuples[i]) >= Specificity(tuples[j])
           /\ tuples[i].cluster = tuples[j].cluster
           /\ tuples[i].backend = tuples[j].backend

SoundConfig(cfg) ==
    /\ \A m \in DOMAIN cfg.modelMappings : SoundTuples(cfg.modelMappings[m])
    /\ \A m \in DOMAIN cfg.lbMappingConfigs : cfg.lbMappingConfigs[m] \in LBRules

\* What Parse accepts and makes of a configuration.
LEMMA ParsedSound ==
  ASSUME NEW raw \in RawConfigs, Valid(raw), NEW cfg \in Parsed(raw)
  PROVE  SoundConfig(cfg)
<1>r. IsRawConfig(raw)
  BY RoutingAssumption
<1> DEFINE rulesOf == raw.modelMappingRule
<1>0. PICK mappings \in ModelMappings(raw) :
          cfg = [modelMappings |-> mappings, lbMappingConfigs |-> raw.lbMappingRule]
  BY DEF Parsed
<1>1. PICK order :
          /\ \A m \in DOMAIN rulesOf : order[m] \in SortTuples(rulesOf[m])
          /\ mappings =
                 [m \in DOMAIN rulesOf |->
                     [i \in DOMAIN order[m] |-> DefaultBackends(rulesOf[m])[order[m][i]]]]
  BY Zenon DEF ModelMappings
<1>2. ASSUME NEW m \in DOMAIN rulesOf
      PROVE  SoundTuples(cfg.modelMappings[m])
  <2> DEFINE rules == rulesOf[m]
             o == order[m]
             tuples == [i \in DOMAIN o |-> DefaultBackends(rules)[o[i]]]
  <2>1. rules \in Seq(Rule) /\ ValidRules(rules) /\ 1 \in DOMAIN rules
    BY <1>r DEF IsRawConfig, Valid, ValidRules
  <2>2. /\ o \in [DOMAIN rules -> DOMAIN rules]
        /\ \A i, j \in DOMAIN rules :
               i < j => Specificity(rules[o[i]]) >= Specificity(rules[o[j]])
    BY <1>1 DEF SortTuples
  <2>3. /\ DOMAIN tuples = DOMAIN rules
        /\ \A i \in DOMAIN tuples :
               /\ o[i] \in DOMAIN rules /\ rules[o[i]] \in Rule
               /\ tuples[i] = WithDefault(rules[o[i]])
    BY <2>1, <2>2 DEF DefaultBackends
  <2>4. DOMAIN tuples \subseteq Nat
    BY <2>1, <2>3
  <2>d. \A i \in DOMAIN rules :
            /\ rules[i] \in Rule /\ rules[i].cluster = rules[1].cluster
            /\ WithDefault(rules[i]).backend = WithDefault(rules[1]).backend
    BY <2>1 DEF ValidRules
  <2> HIDE DEF tuples
  <2>5. ASSUME NEW i \in DOMAIN tuples
        PROVE
            /\ tuples[i] \in Rule /\ tuples[i].backend # ""
            /\ Specificity(tuples[i]) = Specificity(rules[o[i]])
            /\ tuples[i].cluster = rules[1].cluster
            /\ tuples[i].backend = WithDefault(rules[1]).backend
    <3>1. o[i] \in DOMAIN rules /\ tuples[i] = WithDefault(rules[o[i]])
      BY <2>3
    <3>2. /\ rules[o[i]] \in Rule /\ rules[o[i]].cluster = rules[1].cluster
          /\ WithDefault(rules[o[i]]).backend = WithDefault(rules[1]).backend
      BY <2>d, <3>1
    <3> QED  BY <3>1, <3>2, WithDefaultKeeps
  <2>6. SoundTuples(tuples)
    BY <2>2, <2>3, <2>4, <2>5 DEF SoundTuples
  <2> QED  BY <1>0, <1>1, <2>6 DEF tuples
<1>3. \A m \in DOMAIN cfg.lbMappingConfigs : cfg.lbMappingConfigs[m] \in LBRules
  BY <1>r, <1>0, RoutingAssumption DEF IsRawConfig
<1> QED  BY <1>0, <1>1, <1>2, <1>3 DEF SoundConfig

LEMMA ParsedConfigsSound == \A cfg \in ParsedConfigs : SoundConfig(cfg)
  BY ParsedSound DEF ParsedConfigs

\* The first match of sorted tuples is a most specific one, and there is none
\* only if nothing matches.
LEMMA FirstMatch ==
  ASSUME NEW tuples, SoundTuples(tuples), NEW headers,
         NEW rule, rule = GetCandidateRule(tuples, headers)
  PROVE  /\ rule = NoRule => \A i \in DOMAIN tuples : ~Matches(tuples[i], headers)
         /\ rule # NoRule =>
                \E i \in DOMAIN tuples :
                   /\ rule = tuples[i] /\ Matches(rule, headers)
                   /\ \A j \in DOMAIN tuples : Matches(tuples[j], headers) =>
                          Specificity(tuples[j]) =< Specificity(rule)
<1> DEFINE matching == {i \in DOMAIN tuples : Matches(tuples[i], headers)}
<1>1. CASE matching = {}
  BY <1>1 DEF GetCandidateRule
<1>2. CASE matching # {}
  <2>1. \E i \in matching : \A j \in matching : i =< j
    BY <1>2, LeastElement DEF SoundTuples
  <2>2. PICK i \in matching : rule = tuples[i] /\ \A j \in matching : i =< j
    BY <1>2, <2>1 DEF GetCandidateRule
  <2>3. ASSUME NEW j \in matching
        PROVE  Specificity(tuples[j]) =< Specificity(rule)
    <3>1. /\ i \in Nat /\ j \in Nat /\ i =< j
          /\ Specificity(tuples[i]) \in Nat /\ Specificity(tuples[j]) \in Nat
      BY <2>2, WithDefaultKeeps DEF SoundTuples
    <3>2. i = j \/ i < j
      BY <3>1
    <3>3. i < j => Specificity(tuples[i]) >= Specificity(tuples[j])
      BY <2>2 DEF SoundTuples
    <3> QED  BY <2>2, <3>1, <3>2, <3>3
  <2>4. rule # NoRule
    BY <2>2, RoutingAssumption DEF SoundTuples
  <2> QED  BY <2>2, <2>3, <2>4
<1> QED  BY <1>1, <1>2

-----------------------------------------------------------------------------
\* What holds of a request from its first callback to its last.
RequestOK(r) ==
    /\ stage[r] \in {"new", "body"} => data[r] = NoData
    /\ Routed(r) =>
           /\ data[r].model \in DOMAIN conf[r].modelMappings
           /\ data[r].rule =
                  GetCandidateRule(conf[r].modelMappings[data[r].model], data[r].headers)
    /\ stage[r] = "badRequest" /\ data[r].model \in DOMAIN conf[r].modelMappings =>
           GetCandidateRule(conf[r].modelMappings[data[r].model], data[r].headers) = NoRule
    /\ added[r] = "recorded" =>
           stage[r] \in {"forwarded", "destroyed"} /\ LoadAware(conf[r], data[r].model)
    /\ stage[r] = "forwarded" =>
           /\ data[r].load # "none" <=> added[r] # "none"
           /\ data[r].load = "known" /\ data[r].hashed => data[r].cache # "none"
    /\ stage[r] = "destroyed" => (released[r] <=> added[r] = "recorded")

\* Where the requests' state lives; TypeOK only says what is in it.
Domains == DOMAIN conf = Request /\ DOMAIN data = Request

RInv == TypeOK /\ Domains /\ \A r \in Request : RequestOK(r)

LEMMA NoDataFields ==
  NoData.model = "" /\ NoData.rule = NoRule
  BY DEF NoData

LEMMA ConstantTypes == MaxPushes \in Nat /\ CenterEnabled \in BOOLEAN
  BY RoutingAssumption

LEMMA InitInv == Init => RInv
<1>1. Init => TypeOK
  <2>1. Init => pushes \in 0 .. MaxPushes
    BY ConstantTypes DEF Init
  <2>2. Init => \A r \in Request : data[r].model = ""
    BY NoDataFields DEF Init
  <2> QED  BY <2>1, <2>2 DEF Init, TypeOK, Stages, AddStates
<1>2. Init => \A r \in Request : RequestOK(r)
  BY NoDataFields DEF Init, RequestOK, Routed
<1> QED  BY <1>1, <1>2 DEF Init, Domains, RInv

LEMMA ParsedIn ==
  ASSUME NEW raw \in RawConfigs, Valid(raw), NEW cfg \in Parsed(raw)
  PROVE  cfg \in ParsedConfigs
  BY DEF ParsedConfigs

\* The balancer and the filter read the same of a rule for load balancing.
LEMMA SameReading ==
  ASSUME NEW cfg, SoundConfig(cfg), NEW model
  PROVE  /\ ValueFrom(LoadBalanceContext(cfg, model), "loadAware", CenterEnabled)
                = LoadAware(cfg, model)
         /\ ValueFrom(LoadBalanceContext(cfg, model), "cacheAware", CenterEnabled)
                = CacheAware(cfg, model)
         /\ LoadAware(cfg, model) \in BOOLEAN /\ CacheAware(cfg, model) \in BOOLEAN
  BY RoutingAssumption
     DEF ValueFrom, LoadBalanceContext, LoadAware, CacheAware, SoundConfig, LBRules, NoContext

\* A step of one request disturbs no other.
LEMMA OneRequest ==
  ASSUME RInv, NEW r \in Request,
         \A q \in Request \ {r} :
            /\ stage'[q] = stage[q] /\ conf'[q] = conf[q] /\ data'[q] = data[q]
            /\ added'[q] = added[q] /\ released'[q] = released[q],
         TypeOK', Domains', RequestOK(r)'
  PROVE  RInv'
  BY DEF RInv, RequestOK, Routed

LEMMA OneRequestTypes ==
  ASSUME TypeOK, NEW r \in Request, stage[r] # "new",
         NEW s \in Stages \ {"new"}, stage' = [stage EXCEPT ![r] = s],
         \A q \in Request \ {r} : data'[q] = data[q],
         data'[r].model \in Model \cup {""},
         added' \in [Request -> AddStates], released' \in [Request -> BOOLEAN],
         UNCHANGED <<configVars, conf>>
  PROVE  TypeOK'
<1>1. /\ stage' \in [Request -> Stages] /\ conf' = conf
      /\ \A q \in Request : stage'[q] = "new" <=> stage[q] = "new"
  BY DEF TypeOK
<1>2. \A q \in Request : data'[q].model \in Model \cup {""}
  BY DEF TypeOK
<1> QED  BY <1>1, <1>2 DEF TypeOK, configVars

\* What is asked and what is added, for a configuration that was accepted.
LEMMA Asked ==
  ASSUME NEW cfg, SoundConfig(cfg), NEW model, NEW hashed \in BOOLEAN,
         hashed => CacheAware(cfg, model),
         NEW load \in Answers(ValueFrom(LoadBalanceContext(cfg, model), "loadAware", CenterEnabled)),
         NEW add \in AddResults(cfg, model),
         NEW cache \in Answers(/\ load = "known" /\ hashed
                              /\ ValueFrom(LoadBalanceContext(cfg, model), "cacheAware",
                                           CenterEnabled))
  PROVE  /\ add \in AddStates
         /\ add = "recorded" => LoadAware(cfg, model)
         /\ load # "none" <=> add # "none"
         /\ load = "known" /\ hashed => cache # "none"
<1>1. load # "none" <=> LoadAware(cfg, model)
  BY SameReading DEF Answers
<1>2. /\ add \in AddStates
      /\ add = "recorded" => LoadAware(cfg, model)
      /\ add # "none" <=> LoadAware(cfg, model)
  BY DEF AddResults, AddStates
<1>3. load = "known" /\ hashed => cache # "none"
  BY SameReading DEF Answers
<1> QED  BY <1>1, <1>2, <1>3

LEMMA StepInv ==
  ASSUME RInv, [Next]_vars
  PROVE  RInv'
<1> USE DEF RInv
<1>1. ASSUME NEW raw \in RawConfigs, PushListener(raw) \/ PushRoute(raw)
      PROVE  RInv'
  <2>1. /\ listener' \in ParsedConfigs \cup {NoConfig}
        /\ route' \in ParsedConfigs \cup {NoConfig}
    BY <1>1, ParsedIn DEF TypeOK, PushListener, PushRoute
  <2>2. pushes' \in 0 .. MaxPushes
    <3>1. pushes \in 0 .. MaxPushes
      BY DEF TypeOK
    <3>2. pushes < MaxPushes /\ pushes' = pushes + 1
      BY <1>1 DEF PushListener, PushRoute
    <3> QED  BY <3>1, <3>2, ConstantTypes
  <2>3. UNCHANGED requestVars
    BY <1>1 DEF PushListener, PushRoute
  <2>4. TypeOK' /\ Domains'
    BY <2>1, <2>2, <2>3 DEF TypeOK, Domains, requestVars
  <2>5. ASSUME NEW r \in Request  PROVE RequestOK(r)'
    BY <2>3 DEF RequestOK, Routed, requestVars
  <2> QED  BY <2>4, <2>5
<1>2. ASSUME NEW r \in Request, NewRequest(r)  PROVE RInv'
  <2>1. conf'[r] \in ParsedConfigs
    BY <1>2 DEF NewRequest, Merge, TypeOK, Domains
  <2>2. TypeOK' /\ Domains'
    BY <1>2, <2>1 DEF NewRequest, TypeOK, Domains, configVars, Stages
  <2>3. RequestOK(r)'
    BY <1>2, NoDataFields DEF NewRequest, TypeOK, RequestOK, Routed, Stages
  <2> QED  BY <1>2, <2>2, <2>3, OneRequest DEF NewRequest, TypeOK, Domains
<1>3. ASSUME NEW r \in Request, NEW model \in Model, NEW headers \in RequestHeaders,
             BadRequest(r, model, headers) \/ NoUpstream(r, model, headers)
      PROVE  RInv'
  <2>1. stage[r] = "body" /\ data[r] = NoData /\ added[r] # "recorded"
    BY <1>3 DEF BadRequest, NoUpstream, RequestOK
  <2>2. PICK s \in {"badRequest", "noUpstream"} :
            /\ stage' = [stage EXCEPT ![r] = s]
            /\ s = "badRequest" => TargetRules(conf[r], model, headers) = {}
    BY <1>3 DEF BadRequest, NoUpstream
  <2>3. /\ data' = [data EXCEPT ![r].model = model, ![r].headers = headers]
        /\ UNCHANGED <<configVars, conf, added, released>>
    BY <1>3 DEF BadRequest, NoUpstream
  <2>4. /\ data'[r] = [NoData EXCEPT !.model = model, !.headers = headers]
        /\ \A q \in Request \ {r} : data'[q] = data[q]
        /\ DOMAIN data' = Request
    BY <2>1, <2>3 DEF Domains
  <2>5. /\ data'[r].model = model /\ data'[r].headers = headers
        /\ data'[r].rule = NoRule
    BY <2>4 DEF NoData
  <2>6. TypeOK' /\ Domains'
    <3>1. added' \in [Request -> AddStates] /\ released' \in [Request -> BOOLEAN]
      BY <2>3 DEF TypeOK
    <3> QED  BY <2>1, <2>2, <2>3, <2>4, <2>5, <3>1, OneRequestTypes DEF Stages, Domains
  <2>7. /\ stage'[r] = s /\ \A q \in Request \ {r} : stage'[q] = stage[q]
        /\ conf' = conf /\ added' = added /\ released' = released
    BY <2>2, <2>3 DEF TypeOK
  <2>8. RequestOK(r)'
    BY <2>1, <2>2, <2>5, <2>7 DEF RequestOK, Routed, TargetRules
  <2> QED  BY <2>4, <2>6, <2>7, <2>8, OneRequest
<1>4. ASSUME NEW r \in Request, NEW model \in Model, NEW headers \in RequestHeaders,
             NEW prompt \in BOOLEAN, ProcessRequest(r, model, headers, prompt)
      PROVE  RInv'
  <2>1. stage[r] = "body" /\ added[r] # "recorded" /\ conf[r] \in ParsedConfigs
    BY <1>4 DEF ProcessRequest, RequestOK, TypeOK
  <2>2. SoundConfig(conf[r])
    BY <2>1, ParsedConfigsSound
  <2> DEFINE ctx == LoadBalanceContext(conf[r], model)
             hashed == prompt /\ CacheAware(conf[r], model)
             Found(rule, host, load, cache) ==
                 [model |-> model, headers |-> headers, rule |-> rule, host |-> host,
                  hashed |-> hashed, load |-> load, cache |-> cache]
             Loads == Answers(ValueFrom(ctx, "loadAware", CenterEnabled))
             Caches(load) ==
                 Answers(/\ load = "known" /\ hashed
                         /\ ValueFrom(ctx, "cacheAware", CenterEnabled))
  <2>3. PICK rule, host, load, cache, add, place :
            /\ rule \in TargetRules(conf[r], model, headers)
            /\ data' = [data EXCEPT ![r] = Found(rule, host, load, cache)]
            /\ added' = [added EXCEPT ![r] = add]
            /\ stage' = [stage EXCEPT ![r] = place]
            /\ \/ /\ place = "forwarded" /\ load \in Loads /\ cache \in Caches(load)
                  /\ add \in AddResults(conf[r], model)
               \/ place = "noUpstream" /\ add = added[r]
            /\ UNCHANGED <<configVars, conf, released>>
    <3>1. PICK rule \in TargetRules(conf[r], model, headers) :
              \/ \E host \in Choosable(rule.cluster, ctx), load \in Loads,
                    add \in AddResults(conf[r], model) :
                 \E cache \in Caches(load) :
                     /\ data' = [data EXCEPT ![r] = Found(rule, host, load, cache)]
                     /\ added' = [added EXCEPT ![r] = add]
                     /\ stage' = [stage EXCEPT ![r] = "forwarded"]
              \/ /\ Choosable(rule.cluster, ctx) = {}
                 /\ data' = [data EXCEPT ![r] = Found(rule, NoHost, "none", "none")]
                 /\ stage' = [stage EXCEPT ![r] = "noUpstream"]
                 /\ UNCHANGED added
      BY <1>4, Zenon DEF ProcessRequest
    <3>2. UNCHANGED <<configVars, conf, released>>
      BY <1>4 DEF ProcessRequest
    <3>3. added' = added => added' = [added EXCEPT ![r] = added[r]]
      BY DEF TypeOK
    <3> HIDE DEF Found, Loads, Caches, ctx
    <3>4. CASE UNCHANGED added /\ stage' = [stage EXCEPT ![r] = "noUpstream"]
               /\ data' = [data EXCEPT ![r] = Found(rule, NoHost, "none", "none")]
      BY <3>2, <3>3, <3>4, Zenon
    <3>5. CASE \E host \in Choosable(rule.cluster, ctx), load \in Loads,
                 add \in AddResults(conf[r], model) :
              \E cache \in Caches(load) :
                  /\ data' = [data EXCEPT ![r] = Found(rule, host, load, cache)]
                  /\ added' = [added EXCEPT ![r] = add]
                  /\ stage' = [stage EXCEPT ![r] = "forwarded"]
      <4>1. PICK host \in Choosable(rule.cluster, ctx), load \in Loads,
                 add \in AddResults(conf[r], model) :
              \E cache \in Caches(load) :
                  /\ data' = [data EXCEPT ![r] = Found(rule, host, load, cache)]
                  /\ added' = [added EXCEPT ![r] = add]
                  /\ stage' = [stage EXCEPT ![r] = "forwarded"]
        BY <3>5, Zenon
      <4>2. PICK cache \in Caches(load) :
                  /\ data' = [data EXCEPT ![r] = Found(rule, host, load, cache)]
                  /\ added' = [added EXCEPT ![r] = add]
                  /\ stage' = [stage EXCEPT ![r] = "forwarded"]
        BY <4>1, Zenon
      <4> QED  BY <3>2, <4>2, Zenon
    <3> QED  BY <3>1, <3>4, <3>5, Zenon
  <2> DEFINE found == Found(rule, host, load, cache)
  <2>g. /\ found.model = model /\ found.headers = headers /\ found.rule = rule
        /\ found.load = load /\ found.cache = cache /\ found.hashed = hashed
    OBVIOUS
  <2>h. hashed \in BOOLEAN /\ (hashed => CacheAware(conf[r], model))
    BY <2>2, SameReading
  <2> HIDE DEF found, hashed
  <2>a. place = "forwarded" =>
            /\ add \in AddStates
            /\ add = "recorded" => LoadAware(conf[r], model)
            /\ load # "none" <=> add # "none"
            /\ load = "known" /\ hashed => cache # "none"
    BY <2>2, <2>3, <2>h, Asked
  <2>4. /\ data'[r] = found
        /\ \A q \in Request \ {r} : data'[q] = data[q]
        /\ DOMAIN data' = Request
    BY <2>3 DEF Domains, found
  <2>5. /\ model \in DOMAIN conf[r].modelMappings
        /\ rule = GetCandidateRule(conf[r].modelMappings[model], headers)
    BY <2>3 DEF TargetRules
  <2>6. place \in {"forwarded", "noUpstream"} /\ add \in AddStates
    BY <2>3, <2>a DEF TypeOK
  <2>7. TypeOK' /\ Domains'
    <3>1. added' \in [Request -> AddStates] /\ released' \in [Request -> BOOLEAN]
      BY <2>3, <2>6 DEF TypeOK
    <3> QED  BY <2>1, <2>3, <2>4, <2>6, <2>g, <3>1, OneRequestTypes DEF Stages, Domains
  <2>8. RequestOK(r)'
    <3>1. stage'[r] = place /\ added'[r] = add /\ conf'[r] = conf[r]
      BY <2>3 DEF TypeOK
    <3>2. place = "noUpstream" => add # "recorded"
      BY <2>1, <2>3
    <3> QED  BY <2>4, <2>5, <2>6, <2>a, <2>g, <3>1, <3>2 DEF RequestOK, Routed
  <2>9. \A q \in Request \ {r} :
            /\ stage'[q] = stage[q] /\ conf'[q] = conf[q] /\ data'[q] = data[q]
            /\ added'[q] = added[q] /\ released'[q] = released[q]
    BY <2>3, <2>4 DEF TypeOK
  <2> QED  BY <2>7, <2>8, <2>9, OneRequest
<1>5. ASSUME NEW r \in Request, Destroy(r)  PROVE RInv'
  <2>1. TypeOK' /\ Domains'
    BY <1>5 DEF Destroy, MustRelease, TypeOK, Domains, configVars, Stages
  <2>2. RequestOK(r)'
    BY <1>5 DEF Destroy, MustRelease, TypeOK, RequestOK, Routed
  <2> QED  BY <1>5, <2>1, <2>2, OneRequest DEF Destroy, TypeOK
<1>6. CASE UNCHANGED vars
  BY <1>6 DEF vars, configVars, requestVars, TypeOK, Domains, RequestOK, Routed
<1> QED  BY <1>1, <1>2, <1>3, <1>4, <1>5, <1>6 DEF Next

LEMMA RoutingInv == Spec => []RInv
  BY InitInv, StepInv, PTL DEF Spec

\* The state of the routing keeps its types; every request has a configuration
\* that was accepted.
THEOREM RoutingTypes == Spec => []TypeOK
<1>1. RInv => TypeOK
  BY DEF RInv
<1> QED  BY <1>1, RoutingInv, PTL

-----------------------------------------------------------------------------
\* The rules among which a request's one is looked for.
LEMMA RulesOfRequest ==
  ASSUME RInv, NEW r \in Request, stage[r] # "new",
         data[r].model \in DOMAIN conf[r].modelMappings
  PROVE  SoundTuples(conf[r].modelMappings[data[r].model])
  BY ParsedConfigsSound DEF RInv, TypeOK, SoundConfig

LEMMA RuleOfRequest ==
  ASSUME RInv, NEW r \in Request, Routed(r)
  PROVE  /\ SoundTuples(conf[r].modelMappings[data[r].model])
         /\ data[r].rule =
                GetCandidateRule(conf[r].modelMappings[data[r].model], data[r].headers)
         /\ data[r].rule # NoRule
<1>1. stage[r] # "new"
  BY NoDataFields DEF RInv, RequestOK, Routed
<1> QED  BY <1>1, RulesOfRequest DEF RInv, RequestOK, Routed

LEMMA InvMostSpecific == ASSUME RInv  PROVE MostSpecificWins
<1> SUFFICES ASSUME NEW r \in Request, Routed(r)
             PROVE  /\ data[r].rule \in TuplesOf(r)
                    /\ Matches(data[r].rule, data[r].headers)
                    /\ \A other \in TuplesOf(r) : Matches(other, data[r].headers) =>
                           Specificity(other) =< Specificity(data[r].rule)
  BY DEF MostSpecificWins
<1> DEFINE tuples == conf[r].modelMappings[data[r].model]
<1>1. \E i \in DOMAIN tuples :
          /\ data[r].rule = tuples[i] /\ Matches(data[r].rule, data[r].headers)
          /\ \A j \in DOMAIN tuples : Matches(tuples[j], data[r].headers) =>
                 Specificity(tuples[j]) =< Specificity(data[r].rule)
  BY RuleOfRequest, FirstMatch
<1> QED  BY <1>1 DEF TuplesOf

\* A request gets the most specific of the rules that it matches, for rules in
\* any order and whichever way the sort leaves rules with as many headers.
THEOREM SpecificRuleWins == Spec => []MostSpecificWins
  BY InvMostSpecific, RoutingInv, PTL

LEMMA InvRefused == ASSUME RInv  PROVE RefusedOnlyUnmatched
<1> SUFFICES ASSUME NEW r \in Request, stage[r] = "badRequest",
                    data[r].model \in DOMAIN conf[r].modelMappings
             PROVE  \A rule \in TuplesOf(r) : ~Matches(rule, data[r].headers)
  BY DEF RefusedOnlyUnmatched
<1> DEFINE tuples == conf[r].modelMappings[data[r].model]
<1>1. SoundTuples(tuples) /\ GetCandidateRule(tuples, data[r].headers) = NoRule
  BY RulesOfRequest DEF RInv, RequestOK
<1>2. \A i \in DOMAIN tuples : ~Matches(tuples[i], data[r].headers)
  BY <1>1, FirstMatch
<1> QED  BY <1>2 DEF TuplesOf

\* A request is refused for want of a rule only when none of its model fits.
THEOREM RefusalsJustified == Spec => []RefusedOnlyUnmatched
  BY InvRefused, RoutingInv, PTL

LEMMA InvOneCluster == ASSUME RInv  PROVE OneClusterPerModel
<1> SUFFICES ASSUME NEW r \in Request, NEW q \in Request, Routed(r), Routed(q),
                    conf[r] = conf[q], data[r].model = data[q].model
             PROVE  /\ data[r].rule.cluster = data[q].rule.cluster
                    /\ data[r].rule.backend = data[q].rule.backend
                    /\ data[r].rule.backend # ""
  BY DEF OneClusterPerModel
<1> DEFINE tuples == conf[r].modelMappings[data[r].model]
<1>1. SoundTuples(tuples)
  BY RuleOfRequest
<1>2. PICK i \in DOMAIN tuples : data[r].rule = tuples[i]
  BY RuleOfRequest, FirstMatch
<1>3. PICK j \in DOMAIN tuples : data[q].rule = tuples[j]
  BY RuleOfRequest, FirstMatch
<1>4. /\ tuples[i].cluster = tuples[j].cluster
      /\ tuples[i].backend = tuples[j].backend
      /\ tuples[i].backend # ""
  BY <1>1 DEF SoundTuples
<1> QED  BY <1>2, <1>3, <1>4

\* One configuration sends all the requests of a model to one cluster, with one
\* protocol, that is never left open.
THEOREM OneCluster == Spec => []OneClusterPerModel
  BY InvOneCluster, RoutingInv, PTL

\* What the balancer asks of Metadata-Center and what the filter adds to it and
\* hashes for it agree, although they read the rule for load balancing in
\* different places, and whatever fails or is dropped.
THEOREM QueriesAndAddsAgree == Spec => []AskedAsAdded
<1>1. RInv => AskedAsAdded
  BY DEF RInv, RequestOK, AskedAsAdded
<1> QED  BY <1>1, RoutingInv, PTL

\* What was added is deleted, whatever is configured in between.
THEOREM AddedIsReleased == Spec => []ReleasedAsAdded
<1>1. RInv => ReleasedAsAdded
  BY DEF RInv, RequestOK, ReleasedAsAdded
<1> QED  BY <1>1, RoutingInv, PTL
=============================================================================
