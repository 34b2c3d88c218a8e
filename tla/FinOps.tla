------------------------------- MODULE FinOps -------------------------------
(* Cost centres, allocations, chargebacks, budgets and anomalies             *)
(* (src/src/finops.rs), and telemetry and quotas                             *)
(* (src/src/capacity_planning.rs).                                           *)
EXTENDS PlatformHost

CONSTANT RingSize   \* telemetry snapshots kept, 1000 in the code

ASSUME RingAssumption == RingSize \in Nat \ {0}

VARIABLES
    finops,    \* [books : kind -> id -> record, count : kind -> calls,
               \*  byCenter : CenterAllocations]
    capacity   \* [ring : TelemetrySnapshot, count : TelemetryCount, tiers,
               \*  quotas : SubmitterQuota, replicas : LatestRecommendation,
               \*  policy : Policy]

Book == {"center", "allocation", "chargeback", "showback", "resource", "rightsizing",
         "anomaly", "budget", "alert"}

FinOpsInit ==
    finops = [books |-> [b \in Book |-> EmptyMap], count |-> [b \in Book |-> 0],
              byCenter |-> EmptyMap]

(* The id digests kind, subject and time.                                    *)
compute_id(subject) == <<subject, clock>>

(* Stores a record and counts the call; a second one for the same subject    *)
(* within a ledger replaces the first.                                       *)
Entered(state, book, subject, record) ==
    [state EXCEPT !.books[book] = Put(@, compute_id(subject), record),
                  !.count[book] = @ + 1]

Room(book) == finops.count[book] < MaxRecords

register_cost_center(caller, name, budget) ==
    /\ budget > 0
    /\ compute_id(name) \notin DOMAIN finops.books["center"]
    /\ Room("center")
    /\ finops' = Entered(finops, "center", name,
                       [owner |-> caller, budget |-> budget, active |-> TRUE])

update_cost_center_budget(caller, id, new_budget) ==
    /\ finops.books["center"][id].owner = caller
    /\ new_budget > 0
    /\ finops' = [finops EXCEPT !.books["center"][id].budget = new_budget]

deactivate_cost_center(caller, id) ==
    /\ finops.books["center"][id].owner = caller
    /\ finops' = [finops EXCEPT !.books["center"][id].active = FALSE]

(* Faulty variant: the cost centre need not exist.                           *)
AllocateAnywhere(center, amount) ==
    /\ amount > 0
    /\ Room("allocation")
    /\ finops' = [Entered(finops, "allocation", center,
                        [center |-> center, amount |-> amount])
                  EXCEPT !.byCenter = PushTo(@, center, compute_id(center))]

(* An inactive centre takes allocations, and nobody need own it.             *)
allocate_cost(center, amount) ==
    /\ amount > 0
    /\ center \in DOMAIN finops.books["center"]
    /\ Room("allocation")
    /\ finops' = [Entered(finops, "allocation", center,
                        [center |-> center, amount |-> amount])
                  EXCEPT !.byCenter = PushTo(@, center, compute_id(center))]

create_chargeback(team, amount, center) ==
    /\ amount > 0
    /\ center \in DOMAIN finops.books["center"]
    /\ Room("chargeback")
    /\ finops' = Entered(finops, "chargeback", team,
                       [center |-> center, amount |-> amount, approved |-> FALSE])

create_showback(team, amount, center) ==
    /\ amount > 0
    /\ center \in DOMAIN finops.books["center"]
    /\ Room("showback")
    /\ finops' = Entered(finops, "showback", team, [center |-> center, amount |-> amount])

(* Any caller approves.                                                      *)
approve_chargeback(id) ==
    finops' = [finops EXCEPT !.books["chargeback"][id].approved = TRUE]

record_resource(type, size, cost) ==
    /\ Room("resource")
    /\ finops' = Entered(finops, "resource", type, [size |-> size, cost |-> cost])

(* Half the size, and half the cost, of anything larger than one unit.       *)
generate_rightsizing(resource) ==
    LET r     == finops.books["resource"][resource]
        lower == IF r.size > 1 THEN r.size \div 2 ELSE r.size
    IN  /\ Room("rightsizing")
        /\ finops' = Entered(finops, "rightsizing", resource,
              [size |-> lower, savings |-> IF lower < r.size THEN r.cost \div 2 ELSE 0])

AlertSeverity(deviation) ==
    IF deviation > 50 THEN 3 ELSE IF deviation > 25 THEN 2 ELSE IF deviation > 10 THEN 1 ELSE 0

(* The difference is unsigned: a cost below the expected one panics.         *)
record_anomaly(resource, expected, actual) ==
    LET deviation == IF expected > 0 THEN ((actual - expected) * 100) \div expected ELSE 0
    IN  /\ expected > 0 => actual >= expected
        /\ Room("anomaly")
        /\ finops' = Entered(finops, "anomaly", resource,
              [expected |-> expected, actual |-> actual, severity |-> AlertSeverity(deviation),
               resolved |-> FALSE])

resolve_anomaly(id) ==
    finops' = [finops EXCEPT !.books["anomaly"][id].resolved = TRUE]

create_budget(name, center, amount, thresholds) ==
    /\ amount > 0
    /\ center \in DOMAIN finops.books["center"]
    /\ Room("budget")
    /\ finops' = Entered(finops, "budget", name,
                       [center |-> center, amount |-> amount, thresholds |-> thresholds])

(* The first threshold of the list that is reached raises the one alert.     *)
check_budget(id, spend) ==
    LET b       == finops.books["budget"][id]
        used    == (spend * 100) \div b.amount
        reached == {k \in DOMAIN b.thresholds : used >= b.thresholds[k]}
    IN  /\ reached # {}
        /\ Room("alert")
        /\ finops' = Entered(finops, "alert", id,
              [budget |-> id, spend |-> spend, used |-> used,
               threshold |-> b.thresholds[Min(reached)]])

FinOpsNext ==
    \/ \E a \in Account, n \in Label, v \in Amount : register_cost_center(a, n, v)
    \/ \E n \in Label, v, w \in Amount : record_resource(n, v, w) \/ record_anomaly(n, v, w)
    \/ \E c \in DOMAIN finops.books["center"] :
        \/ \E v \in Amount :
            \/ \E a \in Account : update_cost_center_budget(a, c, v)
            \/ \E n \in Label : \/ create_chargeback(n, v, c)
                                \/ create_showback(n, v, c)
                                \/ create_budget(n, c, v, <<50, 80>>)
        \/ \E a \in Account : deactivate_cost_center(a, c)
    \/ \E c \in Label \X (0..MaxClock), v \in Amount : allocate_cost(c, v)
    \/ \E id \in DOMAIN finops.books["chargeback"] : approve_chargeback(id)
    \/ \E id \in DOMAIN finops.books["resource"] : generate_rightsizing(id)
    \/ \E id \in DOMAIN finops.books["anomaly"] : resolve_anomaly(id)
    \/ \E id \in DOMAIN finops.books["budget"], v \in Amount : check_budget(id, v)

-----------------------------------------------------------------------------
QuotaTier == [max_daily_events : Nat, cost_per_million : Nat]
SubmitterQuotaRecord == [tier : Label, events : Nat, window_start : Nat, billed : Nat]
DefaultTier == [max_daily_events |-> 100000, cost_per_million |-> 5000000]

CapacityInit ==
    capacity = [ring |-> EmptyMap, count |-> 0, tiers |-> EmptyMap, quotas |-> EmptyMap,
                replicas |-> None, policy |-> None]

record_telemetry(tps) ==
    /\ capacity.count < RingSize + 1
    /\ capacity' = [capacity EXCEPT !.ring = Put(@, capacity.count % RingSize, tps),
                                    !.count = @ + 1]

set_quota_tier(tier, max_events, cost) ==
    capacity' = [capacity EXCEPT !.tiers =
        Put(@, tier, [max_daily_events |-> max_events, cost_per_million |-> cost])]

(* A new record: what was used and billed before is forgotten.               *)
set_submitter_quota(s, tier) ==
    /\ tier \in DOMAIN capacity.tiers
    /\ capacity' = [capacity EXCEPT !.quotas =
          Put(@, s, [tier |-> tier, events |-> 0, window_start |-> clock, billed |-> 0])]

(* A day after it began, the window starts again.                            *)
CurrentWindow(quota) ==
    IF clock >= quota.window_start + Day
    THEN [quota EXCEPT !.events = 0, !.window_start = clock] ELSE quota

(* A call over the allowance panics, which takes back the throttled flag it  *)
(* has just stored: the flag is never seen set.                              *)
consume_quota(s, first_tier, n) ==
    LET quota == CurrentWindow(GetOr(capacity.quotas, s,
                     [tier |-> first_tier, events |-> 0, window_start |-> clock, billed |-> 0]))
        tier  == GetOr(capacity.tiers, quota.tier, DefaultTier)
    IN  /\ quota.events + n <= tier.max_daily_events
        /\ quota.events + n <= MaxRecords
        /\ capacity' = [capacity EXCEPT !.quotas = Put(@, s,
              [quota EXCEPT !.events = @ + n,
                            !.billed = @ + (n * tier.cost_per_million) \div 1000000])]

record_recommendation(low, high) ==
    /\ low > 0 /\ high >= low
    /\ capacity' = [capacity EXCEPT !.replicas = Some([min |-> low, max |-> high])]

update_policy(low, high) ==
    /\ low > 0 /\ high >= low
    /\ capacity' = [capacity EXCEPT !.policy = Some([min |-> low, max |-> high])]

CapacityNext ==
    \/ \E v \in Amount : record_telemetry(v)
    \/ \E t \in Label, v \in Amount : set_quota_tier(t, v, 0)
    \/ \E s \in Account, t \in Label : set_submitter_quota(s, t)
    \/ \E s \in Account, n \in Amount \ {0} : consume_quota(s, CHOOSE t \in Label : TRUE, n)
    \/ \E v, w \in Amount : record_recommendation(v, w) \/ update_policy(v, w)

OperatingCostTypeOK ==
    /\ \A t \in DOMAIN capacity.tiers : capacity.tiers[t] \in QuotaTier
    /\ \A s \in DOMAIN capacity.quotas : capacity.quotas[s] \in SubmitterQuotaRecord
    /\ DOMAIN finops.books = Book

-----------------------------------------------------------------------------
(* Costs and quotas (finops.rs, capacity_planning.rs): what is allocated,    *)
(* charged or budgeted belongs to a registered cost centre, under the centre *)
(* that lists it; an alert is raised only at a threshold that is reached; no *)
(* record goes uncounted; and the telemetry ring holds as many snapshots as  *)
(* were taken, up to its size.                                               *)
CostsAttributed ==
    /\ \A b \in {"allocation", "chargeback", "showback", "budget"} :
         \A id \in DOMAIN finops.books[b] :
            finops.books[b][id].center \in DOMAIN finops.books["center"]
    /\ \A c \in DOMAIN finops.byCenter : \A k \in DOMAIN finops.byCenter[c] :
          finops.books["allocation"][finops.byCenter[c][k]].center = c
    /\ \A id \in DOMAIN finops.books["alert"] :
          finops.books["alert"][id].used >= finops.books["alert"][id].threshold
    /\ \A b \in Book : finops.count[b] >= Cardinality(DOMAIN finops.books[b])
    /\ DOMAIN capacity.ring = 0..Min({capacity.count, RingSize}) - 1
=============================================================================
