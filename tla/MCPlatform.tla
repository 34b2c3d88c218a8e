----------------------------- MODULE MCPlatform -----------------------------
(* Small instances of Platform for TLC. The parts share no record, so one    *)
(* part, the focus, acts in a behaviour: every order of its own calls is     *)
(* explored, and the parts' states do not multiply.                          *)
EXTENDS Platform

CONSTANTS
    Foci,    \* the parts that act
    Timed    \* those of them for which time passes

VARIABLE focus

MCContent ==
    {[weight |-> 100, carbon |-> 1, eol |-> 80, recycled |-> 50],
     [weight |-> 94, carbon |-> 0, eol |-> 0, recycled |-> 0]}

(* abc does not fit the token buffer, which keeps ab of it.                  *)
MCText ==
    {[words |-> <<"ab", "abc">>, fields |-> <<"k=v", "k=v">>],
     [words |-> <<"abc", "or", "cd">>, fields |-> <<>>]}
MCLength == [w \in {"ab", "abc", "cd", "or"} |-> IF w = "abc" THEN 3 ELSE 2]
MCCut == [w \in {"ab", "abc", "cd", "or"} |-> IF w = "abc" THEN "ab" ELSE w]
MCIndexConfig ==
    {[enabled |-> on, min_len |-> 1, max_len |-> 2, max_keywords |-> n, bucket_max |-> 1] :
        on \in BOOLEAN, n \in {1, 2}}

MCTierThreshold == <<3, 4, 5>>

MCSymmetry == Permutations(Account)

Length(lists) == Total([k \in DOMAIN lists |-> Len(lists[k])], DOMAIN lists)

(* How far a focus goes, where it would go too far.                          *)
Within ==
    CASE focus = "carbon" ->
            /\ clock' <= 2
            /\ Length(carbon'.audits) + Cardinality(DOMAIN carbon'.registry)
                + Length(carbon'.byHolder) + Cardinality(DOMAIN carbon'.tokens) <= 1
            /\ \A id \in DOMAIN carbon'.credits :
                  /\ carbon'.credits[id].tonnes = 1 /\ carbon'.credits[id].energy = 1
                  /\ carbon'.credits[id].verifications <= 1
      [] focus = "passport" ->
            Length(passport'.repairs) + Length(passport'.recyclings)
                + Length(passport'.compliance) + Length(passport'.exports) <= 2
      [] focus = "esg" ->
            Length(esg'.byOrg) + Cardinality(esg'.aligned)
                + Cardinality(DOMAIN esg'.kpis) <= 4
      [] focus = "regions" ->
            /\ \A r \in DOMAIN regions'.nodes : regions'.nodes[r].processed_seq <= 1
            /\ regions'.syncs \in {EmptyMap, <<"east", "west">> :> 1}
      [] focus = "runbook" ->
            /\ Cardinality(DOMAIN runbook'.steps) <= 1
            /\ runbook'.steps = EmptyMap \/ runbook'.settings.bridge = None
      [] focus = "finops" ->
            clock' <= 2 /\ Total(finops'.count, DOMAIN finops'.count) <= 3
      [] focus = "capacity" ->
            /\ clock' <= IF capacity'.count = 0 THEN 3 ELSE 2
            /\ capacity'.quotas # EmptyMap =>
                  capacity'.count = 0 /\ capacity'.replicas = None /\ capacity'.policy = None
      [] focus = "tenants" ->
            /\ clock' <= 2
            /\ "y" \in DOMAIN tenants'.config =>
                  /\ clock' = 1 /\ tenants'.caps = EmptyMap
                  /\ \A k \in DOMAIN tenants'.data : k[1] = "y" => k[2][3] = "t1"
                  /\ \A t \in DOMAIN tenants'.config :
                        /\ tenants'.config[t].max_events + tenants'.config[t].rate_limit = 0
                        /\ tenants'.config[t].max_metadata = 1024
                        /\ tenants'.config[t].status = "Active"
            /\ \A t \in DOMAIN tenants'.config :
                  2 \notin {tenants'.config[t].rate_limit, tenants'.config[t].max_metadata,
                            tenants'.config[t].max_events}
            /\ \A k \in DOMAIN tenants'.caps : k = <<"x", "t1">> /\ tenants'.caps[k] = 1
            /\ Cardinality(DOMAIN tenants'.order) <= 3
            /\ Cardinality(tenants'.admins) <=
                  IF tenants'.order = EmptyMap THEN 2 ELSE Cardinality(DOMAIN tenants'.config)
            /\ tenants'.caps = EmptyMap \/ tenants'.rates = EmptyMap
            /\ \A k \in DOMAIN tenants'.data : k[2][4] = 1
      [] focus = "catalog" ->
            /\ clock' <= 2
            /\ Cardinality(DOMAIN catalog'.lineage) + Cardinality(DOMAIN catalog'.quality)
                + Len(catalog'.requests) <= IF catalog'.policies = EmptyMap THEN 2 ELSE 1
      [] focus = "breaches" ->
            /\ Len(breaches'.ids) + breaches'.pets + Cardinality(DOMAIN breaches'.tees)
                + Cardinality(DOMAIN breaches'.policies) <= 2
            /\ clock' <= IF Len(breaches'.ids) = 2 THEN 2 ELSE 3
            /\ \A id \in DOMAIN breaches'.workflows : breaches'.workflows[id].severity = 1
      [] focus = "analytics" ->
            Len(analytics'.rounds) + Cardinality(DOMAIN analytics'.sessions) <= 2
      [] focus = "sandbox" ->
            /\ clock' <= IF Len(sandbox'.applications) = 1 THEN 4 ELSE 2
            /\ Len(sandbox'.applications) = 2 => sandbox'.applications[2].days = 1
      [] focus = "graduation" -> graduation'.assessment = None \/ graduation'.records = <<>>
      [] focus = "reserve" -> clock' <= 2 /\ reserve'.requested <= 1
      [] focus = "market" -> \A k \in DOMAIN market'.markets :
            Total(market'.markets[k].shares, DOMAIN market'.markets[k].shares) <= 5
      [] focus = "insurance" -> clock' <= 2 /\ insurance'.premiums <= 1
      [] focus = "dao" -> dao'.config = dao.config \/ dao.proposals = <<>>
      [] focus = "treasury" -> treasury'.fees = <<>> \/ treasury'.allocations = <<>>
      [] focus = "keywords" ->
            /\ DOMAIN keywords'.types \subseteq {"t1"}
            /\ \/ keywords'.config = keywords.config
               \/ keywords.config = None /\ keywords.log # <<>>
            /\ keywords'.log # <<>> => keywords'.log[1].type = "t1"
            /\ keywords'.types = keywords.types \/ Len(keywords.log) = 1
      [] focus = "nft" ->
            /\ clock' <= IF nft'.total = 2 THEN 2 ELSE 3
            /\ nft'.total > 0 => \A a \in DOMAIN nft'.creators : ~nft'.creators[a].verified
            /\ Length(nft'.history) <= IF nft'.total = 2 THEN 2 ELSE 3
            /\ nft'.paid + nft'.issued + nft'.divided + Cardinality(DOMAIN nft'.crossings)
                + Cardinality(DOMAIN nft'.royalty) <=
                  IF nft'.total = 2 THEN 0 ELSE IF nft'.paid = 2 THEN 3 ELSE 2
            /\ nft'.records = EmptyMap \/ nft'.paid + nft'.issued + nft'.divided
                                             + Cardinality(DOMAIN nft'.crossings) = 0
      [] focus = "rwa" ->
            LET fed == Total([a \in DOMAIN rwa'.oracles |-> rwa'.oracles[a].total_submissions],
                             DOMAIN rwa'.oracles)
                last(l) == rwa'.pending[l][Len(rwa'.pending[l])]
            IN  /\ clock' <= 2
                /\ Cardinality({rwa'.oracles[a].reputation_score : a \in DOMAIN rwa'.oracles})
                      = Cardinality(DOMAIN rwa'.oracles)
                /\ rwa'.assets # EmptyMap => DOMAIN rwa'.oracles = Account
                /\ Cardinality({a \in DOMAIN rwa'.oracles :
                                   rwa'.oracles[a].status # "Active"}) <= IF fed = 1 THEN 1 ELSE 0
                /\ \A l \in DOMAIN rwa'.assets :
                      /\ rwa'.assets[l].staleness_window_override = 0 \/ rwa'.assets[l].quorum = 1
                      /\ fed <= IF rwa'.assets[l].quorum = 2 THEN 4 ELSE 2
                /\ \A l \in DOMAIN rwa'.pending : rwa'.pending[l] # <<>> =>
                      /\ last(l).price = 100 \/ last(l).observed_at = last(l).submitted_at
                      /\ fed >= 3 => last(l).price = 100 /\ last(l).observed_at = clock
      [] focus = "reputation" ->
            Length(reputation'.ids) + Total([a \in DOMAIN reputation'.scores |->
                  reputation'.scores[a].event_count
                    + reputation'.scores[a].compliance_violations],
                  DOMAIN reputation'.scores) <= 3
      [] OTHER -> TRUE

MCInit ==
    /\ PlatformInit
    /\ focus \in Foci
    /\ focus # "dao" => \A a \in Account : dao.power[a].base_power = 0

MCNext ==
    /\ UNCHANGED focus
    /\ Call(focus) \/ (focus \in Timed /\ Tick)
    /\ focus = "sandbox" \/ clock' <= 3
    /\ Within

MCSpec == MCInit /\ [][MCNext]_<<platformVars, focus>>
=============================================================================
