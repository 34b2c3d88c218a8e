---------------------------- MODULE FinanceProofs ----------------------------
(* Proofs about CbdcRails, Sandbox, SupTech, StablecoinReserves and          *)
(* DaoGovernance within Platform, for all constants: no offline money counts *)
(* twice and the settlement log adds up, no sandbox leaves its limits,       *)
(* supervisors see each point, rule, result and acknowledgment as it was     *)
(* given, no reserve is overstated, and the DAO's tallies, spending, fees    *)
(* and verdicts agree with what its members did.                             *)
EXTENDS PlatformProofs

-----------------------------------------------------------------------------
(* A step of the platform touches the records of a part only by a call of    *)
(* that part (as PartSteps says of the other parts), and the clock does not  *)
(* go back.                                                                  *)
LEMMA FinanceSteps ==
    ASSUME [PlatformNext]_platformVars
    PROVE  /\ cbdc' = cbdc \/ CbdcNext
           /\ transfers' = transfers \/ TransferNext
           /\ masking' = masking \/ MaskingNext
           /\ sandbox' = sandbox \/ (SandboxNext /\ clock' = clock)
           /\ trial' = trial \/ TrialNext
           /\ graduation' = graduation \/ GraduationNext
           /\ feeds' = feeds \/ (FeedsNext /\ clock' = clock)
           /\ supervision' = supervision \/ SupervisionNext
           /\ filing' = filing \/ FilingNext
           /\ wire' = wire \/ WireNext
           /\ clock \in Nat => clock' \in Nat /\ clock <= clock'
<1>1. CASE UNCHANGED platformVars BY <1>1 DEF platformVars, records
<1>2. CASE Tick BY <1>2 DEF Tick, records
<1>3. ASSUME NEW part \in Part, Call(part)
      PROVE  /\ cbdc' = cbdc \/ CbdcNext
             /\ transfers' = transfers \/ TransferNext
             /\ masking' = masking \/ MaskingNext
             /\ sandbox' = sandbox \/ SandboxNext
             /\ trial' = trial \/ TrialNext
             /\ graduation' = graduation \/ GraduationNext
             /\ feeds' = feeds \/ FeedsNext
             /\ supervision' = supervision \/ SupervisionNext
             /\ filing' = filing \/ FilingNext
             /\ wire' = wire \/ WireNext
             /\ clock' = clock
  <2>1. PartNext(part) /\ OthersKept(part) /\ UNCHANGED clock BY <1>3 DEF Call
  <2>. QED BY <2>1 DEF PartNext, OthersKept
<1>. QED BY <1>1, <1>2, <1>3 DEF PlatformNext

-----------------------------------------------------------------------------
(* Supervised finance: feeds.                                                *)

FeedsFields == {"feed", "points", "subscriptions"}
FeedFields == {"id", "data", "updated", "subscribers", "active"}

FeedKept(f) ==
    /\ DOMAIN f = FeedFields
    /\ f.updated \in Nat /\ f.subscribers = 0 /\ f.active \in BOOLEAN

PointsOrdered(points) ==
    /\ IsList(points)
    /\ \A k \in DOMAIN points :
          points[k].active = TRUE /\ points[k].time \in Nat /\ points[k].time <= clock
    /\ \A j, k \in DOMAIN points : j <= k => points[j].time <= points[k].time

FeedsInv ==
    /\ DOMAIN feeds = FeedsFields
    /\ \A f \in feeds.feed : FeedKept(f)
    /\ PointsOrdered(feeds.points)
    /\ \A who \in DOMAIN feeds.subscriptions :
          /\ feeds.subscriptions[who].count \in Nat
          /\ feeds.subscriptions[who].count <= Len(feeds.points)

LEMMA FeedsStep ==
    ASSUME FeedsInv, FeedsNext, clock \in Nat, clock' = clock
    PROVE  FeedsInv'
<1>0. /\ DOMAIN feeds = FeedsFields
      /\ \A f \in feeds.feed : FeedKept(f)
      /\ PointsOrdered(feeds.points)
      /\ \A who \in DOMAIN feeds.subscriptions :
            /\ feeds.subscriptions[who].count \in Nat
            /\ feeds.subscriptions[who].count <= Len(feeds.points)
  BY DEF FeedsInv
<1>1. ASSUME NEW f, FeedKept(f), feeds' = [feeds EXCEPT !.feed = Some(f)]
      PROVE  FeedsInv'
  <2>1. /\ DOMAIN feeds' = FeedsFields /\ feeds'.feed = {f} /\ feeds'.points = feeds.points
        /\ feeds'.subscriptions = feeds.subscriptions
    BY <1>0, <1>1 DEF FeedsFields, Some
  <2>. QED BY <1>0, <1>1, <2>1 DEF FeedsInv, PointsOrdered
<1>2. ASSUME NEW type, NEW data, create_feed(type, data)
      PROVE  FeedsInv'
  <2>1. PICK f : f = [id |-> <<type, clock>>, data |-> data, updated |-> clock,
                      subscribers |-> 0, active |-> TRUE]
    OBVIOUS
  <2>2. FeedKept(f) BY <2>1 DEF FeedKept, FeedFields
  <2>. QED BY <1>1, <1>2, <2>1, <2>2 DEF create_feed
<1>3. ASSUME deactivate_feed
      PROVE  FeedsInv'
  <2>1. PICK f \in feeds.feed : feeds' = [feeds EXCEPT !.feed = Some([f EXCEPT !.active = FALSE])]
    BY <1>3 DEF deactivate_feed
  <2>2. PICK g : g = [f EXCEPT !.active = FALSE] OBVIOUS
  <2>3. FeedKept(f) BY <1>0
  <2>4. FeedKept(g) BY <2>2, <2>3 DEF FeedKept, FeedFields
  <2>. QED BY <1>1, <2>1, <2>2, <2>4
<1>4. ASSUME reactivate_feed
      PROVE  FeedsInv'
  <2>1. PICK f \in feeds.feed :
           feeds' = [feeds EXCEPT !.feed = Some([f EXCEPT !.active = TRUE, !.updated = clock])]
    BY <1>4 DEF reactivate_feed
  <2>2. PICK g : g = [f EXCEPT !.active = TRUE, !.updated = clock] OBVIOUS
  <2>3. FeedKept(f) BY <1>0
  <2>4. FeedKept(g) BY <2>2, <2>3 DEF FeedKept, FeedFields
  <2>. QED BY <1>1, <2>1, <2>2, <2>4
<1>5. ASSUME NEW who, create_subscription(who)
      PROVE  FeedsInv'
  <2>1. PICK r : r = [received |-> None, count |-> 0] OBVIOUS
  <2>2. PICK m : m = Put(feeds.subscriptions, who, r) OBVIOUS
  <2>3. feeds' = [feeds EXCEPT !.subscriptions = m] BY <1>5, <2>1, <2>2 DEF create_subscription
  <2>4. /\ DOMAIN feeds' = FeedsFields /\ feeds'.feed = feeds.feed
        /\ feeds'.points = feeds.points /\ feeds'.subscriptions = m
    BY <1>0, <2>3 DEF FeedsFields
  <2>5. Len(feeds.points) \in Nat BY <1>0, ListFacts DEF PointsOrdered
  <2>6. r.count = 0 BY <2>1
  <2>7. \A x \in DOMAIN m :
           m[x] = r \/ (x \in DOMAIN feeds.subscriptions /\ m[x] = feeds.subscriptions[x])
    BY <2>2 DEF Put
  <2>8. \A x \in DOMAIN m : m[x].count \in Nat /\ m[x].count <= Len(feeds.points)
    BY <1>0, <2>5, <2>6, <2>7
  <2>. QED BY <1>0, <2>4, <2>8 DEF FeedsInv, PointsOrdered
<1>6. ASSUME NEW who \in DOMAIN feeds.subscriptions, record_data_receipt(who)
      PROVE  FeedsInv'
  <2>1. PICK n : n = feeds.subscriptions[who].count OBVIOUS
  <2>2. PICK r : r = [received |-> Some(feeds.points[n + 1].time), count |-> n + 1] OBVIOUS
  <2>3. PICK m : m = [feeds.subscriptions EXCEPT ![who] = r] OBVIOUS
  <2>4. n < Len(feeds.points) /\ feeds' = [feeds EXCEPT !.subscriptions = m]
    BY <1>0, <1>6, <2>1, <2>2, <2>3 DEF record_data_receipt, FeedsFields
  <2>5. /\ DOMAIN feeds' = FeedsFields /\ feeds'.feed = feeds.feed
        /\ feeds'.points = feeds.points /\ feeds'.subscriptions = m
    BY <1>0, <2>4 DEF FeedsFields
  <2>6. Len(feeds.points) \in Nat /\ n \in Nat BY <1>0, <2>1, ListFacts DEF PointsOrdered
  <2>7. r.count = n + 1 BY <2>2
  <2>8. r.count \in Nat /\ r.count <= Len(feeds.points) BY <2>4, <2>6, <2>7
  <2>9. \A x \in DOMAIN m :
           m[x] = r \/ (x \in DOMAIN feeds.subscriptions /\ m[x] = feeds.subscriptions[x])
    BY <2>3
  <2>10. \A x \in DOMAIN m : m[x].count \in Nat /\ m[x].count <= Len(feeds.points)
    BY <1>0, <2>8, <2>9
  <2>. QED BY <1>0, <2>5, <2>10 DEF FeedsInv, PointsOrdered
<1>7. ASSUME NEW data, publish_data_point(data)
      PROVE  FeedsInv'
  <2>1. PICK f \in feeds.feed :
           /\ f.active
           /\ feeds' = [feeds EXCEPT
                 !.points = Append(@, [time |-> clock, hash |-> compute_data_hash(data, clock),
                                       active |-> f.active]),
                 !.feed = Some([f EXCEPT !.data = data, !.updated = clock])]
    BY <1>7 DEF publish_data_point
  <2>2. PICK g : g = [f EXCEPT !.data = data, !.updated = clock] OBVIOUS
  <2>3. FeedKept(f) BY <1>0
  <2>4. FeedKept(g) BY <2>2, <2>3 DEF FeedKept, FeedFields
  <2>5. PICK p : p = [time |-> clock, hash |-> compute_data_hash(data, clock),
                      active |-> f.active]
    OBVIOUS
  <2>6. f.active = TRUE BY <2>1, <2>3 DEF FeedKept
  <2>7. p.time = clock /\ p.active = TRUE BY <2>5, <2>6
  <2>8. PICK old, new : old = feeds.points /\ new = Append(old, p) OBVIOUS
  <2>9. feeds' = [feeds EXCEPT !.points = new, !.feed = Some(g)] BY <2>1, <2>2, <2>5, <2>8
  <2>10. /\ DOMAIN feeds' = FeedsFields /\ feeds'.feed = {g}
         /\ feeds'.points = new /\ feeds'.subscriptions = feeds.subscriptions
    BY <1>0, <2>9 DEF FeedsFields, Some
  <2>11. PointsOrdered(old) BY <1>0, <2>8
  <2>12. /\ IsList(new) /\ Len(old) \in Nat /\ DOMAIN old = 1..Len(old)
         /\ DOMAIN new = 1..(Len(old) + 1) /\ new[Len(old) + 1] = p
         /\ \A k \in 1..Len(old) : new[k] = old[k]
    BY <2>8, <2>11, ListFacts DEF PointsOrdered
  <2>13. ASSUME NEW k \in DOMAIN new
         PROVE  new[k].active = TRUE /\ new[k].time \in Nat /\ new[k].time <= clock
    <3>0. PICK a \in Nat : a = Len(old) BY <2>12
    <3>1. CASE k = a + 1 BY <2>7, <2>12, <3>0, <3>1
    <3>2. CASE k \in 1..a BY <2>11, <2>12, <3>0, <3>2 DEF PointsOrdered
    <3>3. k \in 1..(a + 1) BY <2>12, <2>13, <3>0
    <3>4. k = a + 1 \/ k \in 1..a BY <3>0, <3>3
    <3>. QED BY <3>1, <3>2, <3>4
  <2>14. ASSUME NEW j \in DOMAIN new, NEW k \in DOMAIN new, j <= k
         PROVE  new[j].time <= new[k].time
    <3>0. PICK a \in Nat : a = Len(old) BY <2>12
    <3>1. CASE k = a + 1 BY <2>7, <2>12, <2>13, <3>0, <3>1
    <3>2. CASE k \in 1..a
      <4>1. j \in 1..a BY <2>12, <2>14, <3>0, <3>2
      <4>. QED BY <2>11, <2>12, <2>14, <3>0, <3>2, <4>1 DEF PointsOrdered
    <3>3. k \in 1..(a + 1) BY <2>12, <2>14, <3>0
    <3>4. k = a + 1 \/ k \in 1..a BY <3>0, <3>3
    <3>. QED BY <3>1, <3>2, <3>4
  <2>15. Len(new) \in Nat /\ Len(new) >= Len(old)
    <3>1. Len(new) \in Nat /\ DOMAIN new = 1..Len(new) BY <2>12, ListFacts
    <3>2. PICK a \in Nat, b \in Nat : a = Len(old) /\ b = Len(new) BY <2>12, <3>1
    <3>3. 1..b = 1..(a + 1) BY <2>12, <3>1, <3>2
    <3>4. a + 1 \in 1..b BY <3>3
    <3>. QED BY <3>2, <3>4
  <2>16. \A x \in DOMAIN feeds.subscriptions :
            /\ feeds.subscriptions[x].count \in Nat
            /\ feeds.subscriptions[x].count <= Len(new)
    BY <1>0, <2>8, <2>12, <2>15
  <2>17. PointsOrdered(new) BY <2>12, <2>13, <2>14 DEF PointsOrdered
  <2>. QED BY <2>4, <2>10, <2>16, <2>17 DEF FeedsInv, PointsOrdered
<1>. QED BY <1>2, <1>3, <1>4, <1>5, <1>6, <1>7 DEF FeedsNext

(* Fresh data has no lag, and no feed scores below fifteen.                  *)
LEMMA FeedScored ==
    ASSUME NEW f, FeedKept(f), clock \in Nat
    PROVE  /\ is_data_fresh(f) <=> get_feed_update_lag(f) = 0
           /\ compute_data_quality_score(f, 1) \in 15..100
<1>1. PICK d \in Int : d = clock - f.updated - Frequency BY SupTechAssumption DEF FeedKept
<1>2. is_data_fresh(f) <=> d <= 0 BY <1>1, SupTechAssumption DEF is_data_fresh, FeedKept
<1>3. PICK lag : lag = Max({d, 0}) OBVIOUS
<1>4. lag \in {d, 0} /\ lag >= d /\ lag >= 0
  <2>1. \E x \in {d, 0} : \A y \in {d, 0} : x >= y OBVIOUS
  <2>. QED BY <1>3, <2>1 DEF Max
<1>5. get_feed_update_lag(f) = lag BY <1>1, <1>3 DEF get_feed_update_lag
<1>6. PICK a : a = (IF is_data_fresh(f) THEN 0 ELSE 20) OBVIOUS
<1>7. PICK o : o = (IF f.active THEN 0 ELSE 50) OBVIOUS
<1>8. compute_data_quality_score(f, 1) = 100 - a - 15 - o
  BY <1>6, <1>7 DEF compute_data_quality_score, FeedKept
<1>9. a \in {0, 20} /\ o \in {0, 50} BY <1>6, <1>7
<1>10. 100 - a - 15 - o \in 15..100 BY <1>9
<1>. QED BY <1>2, <1>4, <1>5, <1>8, <1>10

-----------------------------------------------------------------------------
(* Supervised finance: rules and alerts.                                     *)

SupervisionFields ==
    {"supervisors", "rules", "ruleset", "alerts", "thresholds", "delivered"}

SetOfRules(ruleset, rules) ==
    /\ IsList(ruleset)
    /\ \A j, k \in DOMAIN ruleset : ruleset[j] = ruleset[k] => j = k
    /\ \A k \in DOMAIN ruleset : ruleset[k] \in DOMAIN rules

AlertsOf(alerts, ruleset) ==
    /\ IsList(alerts)
    /\ \A k \in DOMAIN alerts : \E i \in DOMAIN ruleset : alerts[k].rule = ruleset[i]

Delivered(delivered, alerts) ==
    \A d \in delivered : d[2] \in DOMAIN alerts /\ alerts[d[2]].severity >= d[3]

SupervisionInv ==
    /\ DOMAIN supervision = SupervisionFields
    /\ SetOfRules(supervision.ruleset, supervision.rules)
    /\ AlertsOf(supervision.alerts, supervision.ruleset)
    /\ Delivered(supervision.delivered, supervision.alerts)

LEMMA SupervisionStep ==
    ASSUME SupervisionInv, SupervisionNext
    PROVE  SupervisionInv'
<1>0. /\ DOMAIN supervision = SupervisionFields
      /\ SetOfRules(supervision.ruleset, supervision.rules)
      /\ AlertsOf(supervision.alerts, supervision.ruleset)
      /\ Delivered(supervision.delivered, supervision.alerts)
  BY DEF SupervisionInv
<1>1. ASSUME DOMAIN supervision' = SupervisionFields,
             DOMAIN supervision.rules \subseteq DOMAIN supervision'.rules,
             supervision'.ruleset = supervision.ruleset,
             supervision'.alerts = supervision.alerts,
             supervision'.delivered = supervision.delivered
      PROVE  SupervisionInv'
  BY <1>0, <1>1 DEF SupervisionInv, SetOfRules
<1>2. ASSUME NEW v, \/ supervision' = [supervision EXCEPT !.supervisors = v]
                    \/ supervision' = [supervision EXCEPT !.thresholds = v]
      PROVE  SupervisionInv'
  <2>1. /\ DOMAIN supervision' = SupervisionFields /\ supervision'.rules = supervision.rules
        /\ supervision'.ruleset = supervision.ruleset
        /\ supervision'.alerts = supervision.alerts
        /\ supervision'.delivered = supervision.delivered
    BY <1>0, <1>2 DEF SupervisionFields
  <2>. QED BY <1>1, <2>1
<1>3. ASSUME NEW m, DOMAIN supervision.rules \subseteq DOMAIN m,
             supervision' = [supervision EXCEPT !.rules = m]
      PROVE  SupervisionInv'
  <2>1. /\ DOMAIN supervision' = SupervisionFields /\ supervision'.rules = m
        /\ supervision'.ruleset = supervision.ruleset
        /\ supervision'.alerts = supervision.alerts
        /\ supervision'.delivered = supervision.delivered
    BY <1>0, <1>3 DEF SupervisionFields
  <2>. QED BY <1>1, <1>3, <2>1
<1>4. ASSUME NEW who, NEW role, register_supervisor(who, role)
      PROVE  SupervisionInv'
  BY <1>2, <1>4 DEF register_supervisor
<1>5. ASSUME NEW who, NEW on, SetSupervisorActive(who, on)
      PROVE  SupervisionInv'
  <2>1. PICK v : v = [supervision.supervisors EXCEPT ![who].active = on] OBVIOUS
  <2>2. supervision' = [supervision EXCEPT !.supervisors = v]
    BY <1>0, <1>5, <2>1 DEF SetSupervisorActive, SupervisionFields
  <2>. QED BY <1>2, <2>2
<1>6. ASSUME NEW who, NEW v, subscribe_to_alerts(who, v)
      PROVE  SupervisionInv'
  BY <1>2, <1>6 DEF subscribe_to_alerts
<1>7. ASSUME NEW f, NEW n, NEW s, create_rule(f, n, s)
      PROVE  SupervisionInv'
  <2>1. PICK r : r = [severity |-> s, active |-> TRUE, condition |-> "initial"] OBVIOUS
  <2>2. PICK m : m = Put(supervision.rules, compute_rule_id(f, n), r) OBVIOUS
  <2>3. supervision' = [supervision EXCEPT !.rules = m] BY <1>7, <2>1, <2>2 DEF create_rule
  <2>4. DOMAIN supervision.rules \subseteq DOMAIN m BY <2>2 DEF Put
  <2>. QED BY <1>3, <2>3, <2>4
<1>8. ASSUME NEW rule, update_rule_condition(rule) \/ disable_rule(rule) \/ enable_rule(rule)
      PROVE  SupervisionInv'
  <2>1. PICK r, m : /\ m = [supervision.rules EXCEPT ![rule] = r]
                    /\ supervision' = [supervision EXCEPT !.rules = m]
    <3>1. CASE update_rule_condition(rule)
      <4>1. PICK r : r = [supervision.rules[rule] EXCEPT !.condition = "updated"] OBVIOUS
      <4>2. PICK m : m = [supervision.rules EXCEPT ![rule] = r] OBVIOUS
      <4>3. supervision' = [supervision EXCEPT !.rules = m]
        BY <1>0, <3>1, <4>1, <4>2 DEF update_rule_condition, SupervisionFields
      <4>. QED BY <4>2, <4>3
    <3>2. CASE disable_rule(rule)
      <4>1. PICK r : r = [supervision.rules[rule] EXCEPT !.active = FALSE] OBVIOUS
      <4>2. PICK m : m = [supervision.rules EXCEPT ![rule] = r] OBVIOUS
      <4>3. supervision' = [supervision EXCEPT !.rules = m]
        BY <1>0, <3>2, <4>1, <4>2 DEF disable_rule, SupervisionFields
      <4>. QED BY <4>2, <4>3
    <3>3. CASE enable_rule(rule)
      <4>1. PICK r : r = [supervision.rules[rule] EXCEPT !.active = TRUE] OBVIOUS
      <4>2. PICK m : m = [supervision.rules EXCEPT ![rule] = r] OBVIOUS
      <4>3. supervision' = [supervision EXCEPT !.rules = m]
        BY <1>0, <3>3, <4>1, <4>2 DEF enable_rule, SupervisionFields
      <4>. QED BY <4>2, <4>3
    <3>. QED BY <1>8, <3>1, <3>2, <3>3
  <2>2. DOMAIN supervision.rules \subseteq DOMAIN m BY <2>1
  <2>. QED BY <1>3, <2>1, <2>2
<1>9. ASSUME NEW rule \in DOMAIN supervision.rules, add_rule_to_set(rule)
      PROVE  SupervisionInv'
  <2>1. PICK old, new : old = supervision.ruleset /\ new = Append(old, rule) OBVIOUS
  <2>2. /\ \A k \in DOMAIN old : old[k] # rule
        /\ supervision' = [supervision EXCEPT !.ruleset = new]
    BY <1>9, <2>1 DEF add_rule_to_set, ToSet
  <2>3. /\ DOMAIN supervision' = SupervisionFields /\ supervision'.rules = supervision.rules
        /\ supervision'.ruleset = new /\ supervision'.alerts = supervision.alerts
        /\ supervision'.delivered = supervision.delivered
    BY <1>0, <2>2 DEF SupervisionFields
  <2>4. SetOfRules(old, supervision.rules) BY <1>0, <2>1
  <2>5. /\ IsList(new) /\ Len(old) \in Nat /\ DOMAIN old = 1..Len(old)
        /\ DOMAIN new = 1..(Len(old) + 1) /\ new[Len(old) + 1] = rule
        /\ \A k \in 1..Len(old) : new[k] = old[k]
    BY <2>1, <2>4, ListFacts DEF SetOfRules
  <2>6. ASSUME NEW j \in DOMAIN new, NEW k \in DOMAIN new, new[j] = new[k]
        PROVE  j = k
    <3>1. CASE j \in 1..Len(old) /\ k \in 1..Len(old) BY <2>4, <2>5, <2>6, <3>1 DEF SetOfRules
    <3>2. CASE j = Len(old) + 1 /\ k \in 1..Len(old) BY <2>2, <2>5, <2>6, <3>2
    <3>3. CASE k = Len(old) + 1 /\ j \in 1..Len(old) BY <2>2, <2>5, <2>6, <3>3
    <3>4. CASE k = Len(old) + 1 /\ j = Len(old) + 1 BY <3>4
    <3>. QED BY <2>5, <3>1, <3>2, <3>3, <3>4
  <2>7. \A k \in DOMAIN new : new[k] \in DOMAIN supervision.rules
    BY <1>9, <2>4, <2>5 DEF SetOfRules
  <2>8. SetOfRules(new, supervision.rules) BY <2>5, <2>6, <2>7 DEF SetOfRules
  <2>9. AlertsOf(supervision.alerts, new)
    <3>1. \A i \in DOMAIN old : i \in DOMAIN new /\ new[i] = old[i] BY <2>5
    <3>. QED BY <1>0, <2>1, <3>1 DEF AlertsOf
  <2>. QED BY <1>0, <2>3, <2>8, <2>9 DEF SupervisionInv
<1>10. ASSUME NEW rule, NEW institution, generate_alert_from_rule(rule, institution)
       PROVE  SupervisionInv'
  <2>1. PICK a : a = [id |-> compute_alert_id(rule, institution), rule |-> rule,
                      severity |-> supervision.rules[rule].severity, status |-> "New"]
    OBVIOUS
  <2>2. PICK old, new : old = supervision.alerts /\ new = Append(old, a) OBVIOUS
  <2>3. supervision' = [supervision EXCEPT !.alerts = new]
    BY <1>10, <2>1, <2>2 DEF generate_alert_from_rule
  <2>4. /\ DOMAIN supervision' = SupervisionFields /\ supervision'.rules = supervision.rules
        /\ supervision'.ruleset = supervision.ruleset /\ supervision'.alerts = new
        /\ supervision'.delivered = supervision.delivered
    BY <1>0, <2>3 DEF SupervisionFields
  <2>5. \E i \in DOMAIN supervision.ruleset : rule = supervision.ruleset[i]
    <3>1. PICK e \in execute_ruleset({"context"}) : e.rule = rule
      BY <1>10 DEF generate_alert_from_rule
    <3>2. PICK r \in DOMAIN supervision.rules :
             /\ r \in ToSet(supervision.ruleset)
             /\ e = evaluate_rule(r, {"context"})
      BY <3>1 DEF execute_ruleset
    <3>3. r = rule BY <3>1, <3>2 DEF evaluate_rule
    <3>. QED BY <3>2, <3>3 DEF ToSet
  <2>6. /\ IsList(new) /\ Len(old) \in Nat /\ DOMAIN old = 1..Len(old)
        /\ DOMAIN new = 1..(Len(old) + 1) /\ new[Len(old) + 1] = a
        /\ \A k \in 1..Len(old) : new[k] = old[k]
    BY <1>0, <2>2, ListFacts DEF AlertsOf
  <2>7. a.rule = rule BY <2>1
  <2>8. AlertsOf(new, supervision.ruleset)
    <3>1. ASSUME NEW k \in DOMAIN new
          PROVE  \E i \in DOMAIN supervision.ruleset : new[k].rule = supervision.ruleset[i]
      <4>1. CASE k = Len(old) + 1 BY <2>5, <2>6, <2>7, <4>1
      <4>2. CASE k \in 1..Len(old) BY <1>0, <2>2, <2>6, <4>2 DEF AlertsOf
      <4>. QED BY <2>6, <4>1, <4>2
    <3>. QED BY <2>6, <3>1 DEF AlertsOf
  <2>9. Delivered(supervision.delivered, new)
    <3>1. \A k \in DOMAIN old : k \in DOMAIN new /\ new[k] = old[k] BY <2>6
    <3>. QED BY <1>0, <2>2, <3>1 DEF Delivered
  <2>. QED BY <1>0, <2>4, <2>8, <2>9 DEF SupervisionInv
<1>11. ASSUME NEW who, NEW k \in DOMAIN supervision.alerts, record_alert_delivery(who, k)
       PROVE  SupervisionInv'
  <2>1. PICK h : h = supervision.thresholds[who] OBVIOUS
  <2>2. PICK d : d = <<who, k, h>> OBVIOUS
  <2>3. /\ supervision.alerts[k].severity >= h
        /\ supervision' = [supervision EXCEPT !.delivered = supervision.delivered \cup {d}]
    BY <1>0, <1>11, <2>1, <2>2 DEF record_alert_delivery, should_deliver_alert
  <2>4. /\ DOMAIN supervision' = SupervisionFields /\ supervision'.rules = supervision.rules
        /\ supervision'.ruleset = supervision.ruleset
        /\ supervision'.alerts = supervision.alerts
        /\ supervision'.delivered = supervision.delivered \cup {d}
    BY <1>0, <2>3 DEF SupervisionFields
  <2>5. d[2] = k /\ d[3] = h BY <2>2
  <2>6. Delivered(supervision.delivered \cup {d}, supervision.alerts)
    BY <1>0, <1>11, <2>3, <2>5 DEF Delivered
  <2>. QED BY <1>0, <2>4, <2>6 DEF SupervisionInv
<1>12. ASSUME NEW rule, remove_rule_from_set(rule)
       PROVE  SupervisionInv'
  BY <1>12 DEF remove_rule_from_set, SupervisionInv
<1>. QED
  BY <1>4, <1>5, <1>6, <1>7, <1>8, <1>9, <1>10, <1>11, <1>12 DEF SupervisionNext

-----------------------------------------------------------------------------
(* Supervised finance: reports and transmissions.                            *)

FilingFields == {"report", "results", "total", "accepted", "rate"}
FiledFields == {"id", "standard", "size", "status", "validated_at"}

(* One report at most; it is pending exactly until its first result, and     *)
(* only that one can have been an acceptance.                                *)
FilingInv ==
    /\ DOMAIN filing = FilingFields
    /\ IsList(filing.results)
    /\ \A k \in DOMAIN filing.results : filing.results[k].status = "Accepted" => k = 1
    /\ filing.rate \in 0..100
    /\ \/ /\ filing.report = {} /\ filing.results = <<>>
          /\ filing.total = 0 /\ filing.accepted = 0
       \/ /\ filing.total = 1 /\ filing.accepted \in {0, 1}
          /\ \E r : /\ filing.report = {r}
                    /\ DOMAIN r = FiledFields
                    /\ r.status = "Pending" => filing.results = <<>> /\ filing.accepted = 0
                    /\ filing.accepted = 1 => r.size >= LeastData[r.standard]

LEMMA FilingStep ==
    ASSUME FilingInv, FilingNext
    PROVE  FilingInv'
<1>0. /\ DOMAIN filing = FilingFields
      /\ IsList(filing.results)
      /\ \A k \in DOMAIN filing.results : filing.results[k].status = "Accepted" => k = 1
      /\ filing.rate \in 0..100
  BY DEF FilingInv
<1>1. ASSUME NEW s, NEW w, NEW b, NEW e, NEW z, create_report(s, w, b, e, z)
      PROVE  FilingInv'
  <2>1. PICK r : r = [id |-> <<w, b, e>>, standard |-> s, size |-> z,
                      status |-> "Pending", validated_at |-> None]
    OBVIOUS
  <2>2. /\ filing.report = None
        /\ filing' = [filing EXCEPT !.report = Some(r), !.total = filing.total + 1]
    BY <1>0, <1>1, <2>1 DEF create_report, FilingFields
  <2>3. filing.results = <<>> /\ filing.total = 0 /\ filing.accepted = 0
    BY <2>2 DEF FilingInv, None
  <2>4. /\ DOMAIN filing' = FilingFields /\ filing'.report = {r} /\ filing'.total = 1
        /\ filing'.results = filing.results /\ filing'.accepted = 0
        /\ filing'.rate = filing.rate
    BY <1>0, <2>2, <2>3 DEF FilingFields, Some
  <2>5. DOMAIN r = FiledFields BY <2>1 DEF FiledFields
  <2>. QED BY <1>0, <2>3, <2>4, <2>5 DEF FilingInv
<1>2. ASSUME NEW r \in filing.report, NEW status, Given(r, status),
             status = "Accepted" => /\ r.status = "Pending"
                                    /\ r.size >= LeastData[r.standard],
             status # "Pending"
      PROVE  FilingInv'
  <2>1. PICK q : q = [r EXCEPT !.status = status, !.validated_at = Some(clock)] OBVIOUS
  <2>2. PICK e : e = [status |-> status, time |-> clock] OBVIOUS
  <2>3. PICK old, new : old = filing.results /\ new = Append(old, e) OBVIOUS
  <2>4. PICK a : a = IF status = "Accepted" THEN filing.accepted + 1 ELSE filing.accepted
    OBVIOUS
  <2>5. PICK rate : rate = compute_compliance_rate(
                       filing.accepted + (IF status = "Accepted" THEN 1 ELSE 0), filing.total)
    OBVIOUS
  <2>6. filing' = [filing EXCEPT !.report = Some(q), !.results = new, !.accepted = a,
                                 !.rate = rate]
    BY <1>0, <1>2, <2>1, <2>2, <2>3, <2>4, <2>5 DEF Given, FilingFields
  <2>7. /\ DOMAIN filing' = FilingFields /\ filing'.report = {q} /\ filing'.results = new
        /\ filing'.accepted = a /\ filing'.rate = rate /\ filing'.total = filing.total
    BY <1>0, <2>6 DEF FilingFields, Some
  <2>8. /\ filing.total = 1 /\ filing.accepted \in {0, 1} /\ filing.report = {r}
        /\ DOMAIN r = FiledFields
        /\ r.status = "Pending" => filing.results = <<>> /\ filing.accepted = 0
        /\ filing.accepted = 1 => r.size >= LeastData[r.standard]
    BY <1>2 DEF FilingInv
  <2>9. DOMAIN q = FiledFields /\ q.status = status /\ q.size = r.size
        /\ q.standard = r.standard
    BY <2>1, <2>8 DEF FiledFields
  <2>10. a \in {0, 1} /\ (a = 1 => r.size >= LeastData[r.standard])
    <3>1. CASE status = "Accepted" BY <1>2, <2>4, <2>8, <3>1
    <3>2. CASE status # "Accepted" BY <2>4, <2>8, <3>2
    <3>. QED BY <3>1, <3>2
  <2>11. rate \in 0..100
    <3>1. rate = compute_compliance_rate(a, 1)
      <4>1. CASE status = "Accepted" BY <2>4, <2>5, <2>8, <4>1
      <4>2. CASE status # "Accepted"
        <5>1. filing.accepted + 0 = filing.accepted BY <2>8
        <5>. QED BY <2>4, <2>5, <2>8, <4>2, <5>1
      <4>. QED BY <4>1, <4>2
    <3>2. rate = (a * 100) \div 1 BY <3>1 DEF compute_compliance_rate
    <3>. QED BY <2>10, <3>2
  <2>12. /\ IsList(new) /\ Len(old) \in Nat /\ DOMAIN old = 1..Len(old)
         /\ DOMAIN new = 1..(Len(old) + 1) /\ new[Len(old) + 1] = e
         /\ \A k \in 1..Len(old) : new[k] = old[k]
    BY <1>0, <2>3, ListFacts
  <2>13. ASSUME NEW k \in DOMAIN new, new[k].status = "Accepted" PROVE k = 1
    <3>1. CASE k \in 1..Len(old) BY <1>0, <2>3, <2>12, <2>13, <3>1
    <3>2. CASE k = Len(old) + 1
      <4>1. status = "Accepted" BY <2>2, <2>12, <2>13, <3>2
      <4>2. old = <<>> BY <1>2, <2>3, <2>8, <4>1
      <4>3. Len(old) = 0 BY <4>2
      <4>. QED BY <3>2, <4>3
    <3>. QED BY <2>12, <3>1, <3>2
  <2>14. /\ q.status # "Pending" /\ (a = 1 => q.size >= LeastData[q.standard])
    BY <1>2, <2>9, <2>10
  <2>. QED BY <2>7, <2>8, <2>9, <2>10, <2>11, <2>12, <2>13, <2>14 DEF FilingInv
<1>3. ASSUME accept_report PROVE FilingInv'
  BY <1>2, <1>3 DEF accept_report, validate_report_format
<1>4. ASSUME request_corrections \/ flag_report \/ reject_report PROVE FilingInv'
  BY <1>2, <1>4 DEF request_corrections, flag_report, reject_report
<1>. QED BY <1>1, <1>3, <1>4 DEF FilingNext

WireFields == {"endpoint", "transmission", "acks"}
SentFields == {"id", "sent", "acknowledged_at", "status"}

(* A transmission is acknowledged at most once, and then never again waits.  *)
WireInv ==
    /\ DOMAIN wire = WireFields
    /\ \/ wire.transmission = {} /\ wire.acks = 0
       \/ \E t : /\ wire.transmission = {t} /\ DOMAIN t = SentFields
                 /\ \/ t.acknowledged_at = None /\ wire.acks = 0
                    \/ t.acknowledged_at # None /\ wire.acks = 1
                 /\ t.status = "Transmitted" => t.acknowledged_at = None
                 /\ t.status = "Acknowledged" => t.acknowledged_at # None

LEMMA WireStep ==
    ASSUME WireInv, WireNext
    PROVE  WireInv'
<1>0. DOMAIN wire = WireFields BY DEF WireInv
<1>1. ASSUME NEW e, wire' = [wire EXCEPT !.endpoint = e]
      PROVE  WireInv'
  <2>1. /\ DOMAIN wire' = WireFields /\ wire'.transmission = wire.transmission
        /\ wire'.acks = wire.acks
    BY <1>0, <1>1 DEF WireFields
  <2>. QED BY <2>1 DEF WireInv
<1>2. ASSUME \/ \E f : register_endpoint(f)
             \/ sync_endpoint \/ endpoint_error
      PROVE  WireInv'
  BY <1>1, <1>2 DEF register_endpoint, sync_endpoint, endpoint_error
<1>3. ASSUME NEW s, NEW d, create_transmission(s, d)
      PROVE  WireInv'
  <2>1. PICK t : t = [id |-> <<s, d, clock>>, sent |-> clock,
                      acknowledged_at |-> None, status |-> "Transmitted"]
    OBVIOUS
  <2>2. wire.transmission = None /\ wire' = [wire EXCEPT !.transmission = Some(t)]
    BY <1>3, <2>1 DEF create_transmission
  <2>3. wire.acks = 0 BY <2>2 DEF WireInv, None
  <2>4. DOMAIN wire' = WireFields /\ wire'.transmission = {t} /\ wire'.acks = 0
    BY <1>0, <2>2, <2>3 DEF WireFields, Some
  <2>5. DOMAIN t = SentFields /\ t.acknowledged_at = None /\ t.status = "Transmitted"
    BY <2>1 DEF SentFields
  <2>. QED BY <2>4, <2>5 DEF WireInv
<1>4. ASSUME acknowledge_transmission
      PROVE  WireInv'
  <2>1. PICK t \in wire.transmission :
           /\ t.status = "Transmitted"
           /\ wire' = [wire EXCEPT !.acks = @ + 1,
                  !.transmission = Some([t EXCEPT !.status = "Acknowledged",
                                                  !.acknowledged_at = Some(clock)])]
    BY <1>4 DEF acknowledge_transmission
  <2>2. PICK u : u = [t EXCEPT !.status = "Acknowledged", !.acknowledged_at = Some(clock)]
    OBVIOUS
  <2>3. DOMAIN t = SentFields /\ wire.acks = 0 BY <2>1 DEF WireInv
  <2>4. wire' = [wire EXCEPT !.acks = wire.acks + 1, !.transmission = Some(u)]
    BY <2>1, <2>2
  <2>5. DOMAIN wire' = WireFields /\ wire'.transmission = {u} /\ wire'.acks = 1
    BY <1>0, <2>3, <2>4 DEF WireFields, Some
  <2>6. DOMAIN u = SentFields /\ u.acknowledged_at = Some(clock) /\ u.status = "Acknowledged"
    BY <2>2, <2>3 DEF SentFields
  <2>7. u.acknowledged_at # None BY <2>6 DEF Some, None
  <2>. QED BY <2>5, <2>6, <2>7 DEF WireInv
<1>5. ASSUME NEW t \in wire.transmission, NEW s \in {"Failed", "Scheduled"},
             wire' = [wire EXCEPT !.transmission = Some([t EXCEPT !.status = s])]
      PROVE  WireInv'
  <2>1. PICK u : u = [t EXCEPT !.status = s] OBVIOUS
  <2>2. /\ DOMAIN t = SentFields
        /\ \/ t.acknowledged_at = None /\ wire.acks = 0
           \/ t.acknowledged_at # None /\ wire.acks = 1
    BY <1>5 DEF WireInv
  <2>3. DOMAIN wire' = WireFields /\ wire'.transmission = {u} /\ wire'.acks = wire.acks
    BY <1>0, <1>5, <2>1 DEF WireFields, Some
  <2>4. DOMAIN u = SentFields /\ u.acknowledged_at = t.acknowledged_at /\ u.status = s
    BY <2>1, <2>2 DEF SentFields
  <2>. QED BY <2>2, <2>3, <2>4 DEF WireInv
<1>6. ASSUME fail_transmission \/ schedule_retransmission
      PROVE  WireInv'
  BY <1>5, <1>6 DEF fail_transmission, schedule_retransmission
<1>. QED BY <1>2, <1>3, <1>4, <1>6 DEF WireNext

LEMMA SupervisionInvSound ==
    ASSUME FeedsInv, SupervisionInv, FilingInv, WireInv, clock \in Nat
    PROVE  SupervisionSound
<1>1. /\ \A j, k \in DOMAIN feeds.points : j <= k => feeds.points[j].time <= feeds.points[k].time
      /\ \A k \in DOMAIN feeds.points : feeds.points[k].active
      /\ \A who \in DOMAIN feeds.subscriptions :
            feeds.subscriptions[who].count <= Len(feeds.points)
  BY DEF FeedsInv, PointsOrdered
<1>2. \A feed \in feeds.feed :
        /\ is_data_fresh(feed) <=> get_feed_update_lag(feed) = 0
        /\ compute_data_quality_score(feed, 1) \in 15..100
  BY FeedScored DEF FeedsInv
<1>3. /\ IsInjective(supervision.ruleset)
      /\ ToSet(supervision.ruleset) \subseteq DOMAIN supervision.rules
      /\ \A k \in DOMAIN supervision.alerts :
            supervision.alerts[k].rule \in ToSet(supervision.ruleset)
      /\ \A d \in supervision.delivered : supervision.alerts[d[2]].severity >= d[3]
  BY DEF SupervisionInv, SetOfRules, AlertsOf, Delivered, IsInjective, ToSet
<1>4. /\ \A k \in DOMAIN filing.results : filing.results[k].status = "Accepted" => k = 1
      /\ filing.accepted <= filing.total /\ filing.rate \in 0..100
      /\ \A report \in filing.report :
            filing.accepted = 1 => report.size >= LeastData[report.standard]
  BY DEF FilingInv
<1>5. /\ wire.acks <= 1
      /\ \A t \in wire.transmission :
            /\ t.acknowledged_at # None <=> wire.acks = 1
            /\ t.status = "Acknowledged" => ~is_acknowledgment_overdue(t)
  BY DEF WireInv, is_acknowledgment_overdue
<1>. QED BY <1>1, <1>2, <1>3, <1>4, <1>5 DEF SupervisionSound

LEMMA SupervisionBegins ==
    ASSUME FeedsInit, SupervisionInit, FilingInit, WireInit
    PROVE  FeedsInv /\ SupervisionInv /\ FilingInv /\ WireInv
<1>0. DOMAIN EmptyMap = {} /\ IsList(<<>>) /\ DOMAIN (<<>>) = {} BY EmptyList DEF EmptyMap
<1>1. FeedsInv
  <2>1. /\ DOMAIN feeds = FeedsFields /\ feeds.feed = {} /\ feeds.points = <<>>
        /\ feeds.subscriptions = EmptyMap
    BY DEF FeedsInit, FeedsFields, None
  <2>2. PointsOrdered(<<>>) BY <1>0 DEF PointsOrdered
  <2>. QED BY <1>0, <2>1, <2>2 DEF FeedsInv
<1>2. SupervisionInv
  <2>1. /\ DOMAIN supervision = SupervisionFields /\ supervision.ruleset = <<>>
        /\ supervision.alerts = <<>> /\ supervision.delivered = {}
        /\ supervision.rules = EmptyMap
    BY DEF SupervisionInit, SupervisionFields
  <2>2. SetOfRules(<<>>, EmptyMap) /\ AlertsOf(<<>>, <<>>) /\ Delivered({}, <<>>)
    BY <1>0 DEF SetOfRules, AlertsOf, Delivered
  <2>. QED BY <2>1, <2>2 DEF SupervisionInv
<1>3. FilingInv
  <2>1. /\ DOMAIN filing = FilingFields /\ filing.report = {} /\ filing.results = <<>>
        /\ filing.total = 0 /\ filing.accepted = 0 /\ filing.rate = 100
    BY DEF FilingInit, FilingFields, None
  <2>. QED BY <1>0, <2>1 DEF FilingInv
<1>4. WireInv
  <2>1. DOMAIN wire = WireFields /\ wire.transmission = {} /\ wire.acks = 0
    BY DEF WireInit, WireFields, None
  <2>. QED BY <2>1 DEF WireInv
<1>. QED BY <1>1, <1>2, <1>3, <1>4

-----------------------------------------------------------------------------
(* Supervised finance: sandbox instances and graduation.                     *)

TrialFields == {"participant", "level", "relaxed", "used", "limit", "count", "hash"}

(* The limit is the volume of the level, and what is used stays below it.    *)
InstanceKept(i) ==
    /\ DOMAIN i = TrialFields
    /\ i.level \in Level
    /\ i.limit = max_daily_volume[i.level]
    /\ i.limit \in Nat /\ i.used \in Nat /\ i.used <= i.limit

TrialInv == \A i \in trial : InstanceKept(i)

LEMMA VolumeType == \A l \in Level : max_daily_volume[l] \in Nat
<1>. TAKE l \in Level
<1>1. l = 1 \/ l = 2 \/ l = 3 BY DEF Level
<1>. QED BY <1>1 DEF max_daily_volume

LEMMA TrialStep ==
    ASSUME TrialInv, TrialNext
    PROVE  TrialInv'
<1>1. ASSUME NEW who, NEW level \in Level, create_sandbox_instance(who, level)
      PROVE  TrialInv'
  <2>1. PICK p, x : p = compute_participant_id(who) /\ x = RelaxedRequirements[level] OBVIOUS
  <2>2. PICK v \in Nat : v = max_daily_volume[level] BY VolumeType
  <2>3. PICK i : i = [participant |-> p, level |-> level, relaxed |-> x, used |-> 0,
                      limit |-> v, count |-> 0, hash |-> "zero"]
    OBVIOUS
  <2>4. trial' = {i} BY <1>1, <2>1, <2>2, <2>3 DEF create_sandbox_instance, Some
  <2>5. InstanceKept(i) BY <2>2, <2>3 DEF InstanceKept, TrialFields
  <2>. QED BY <2>4, <2>5 DEF TrialInv
<1>2. ASSUME NEW amount \in Nat, execute_sandbox_transaction(amount)
      PROVE  TrialInv'
  <2>1. PICK i \in trial :
          /\ check_transaction_limits(i, amount)
          /\ trial' = Some(update_state_hash([i EXCEPT !.used = @ + amount, !.count = @ + 1]))
    BY <1>2 DEF execute_sandbox_transaction
  <2>2. InstanceKept(i) /\ i.used + amount <= i.limit
    BY <2>1 DEF TrialInv, check_transaction_limits
  <2>3. PICK u, n : u = i.used + amount /\ n = i.count + 1 OBVIOUS
  <2>4. PICK j : j = [i EXCEPT !.used = u, !.count = n] OBVIOUS
  <2>5. /\ DOMAIN j = TrialFields /\ j.used = u /\ j.level = i.level /\ j.limit = i.limit
    BY <2>2, <2>4 DEF InstanceKept, TrialFields
  <2>6. PICK h : h = <<j.participant, j.used, j.count>> OBVIOUS
  <2>7. PICK q : q = [j EXCEPT !.hash = h] OBVIOUS
  <2>8. /\ DOMAIN q = TrialFields /\ q.used = u /\ q.level = i.level /\ q.limit = i.limit
    BY <2>5, <2>7 DEF TrialFields
  <2>9. u \in Nat /\ u <= i.limit BY <2>2, <2>3 DEF InstanceKept
  <2>10. InstanceKept(q) BY <2>2, <2>8, <2>9 DEF InstanceKept
  <2>11. trial' = {q} BY <2>1, <2>3, <2>4, <2>6, <2>7 DEF update_state_hash, Some
  <2>. QED BY <2>10, <2>11 DEF TrialInv
<1>3. ASSUME reset_daily_limits
      PROVE  TrialInv'
  <2>1. PICK i \in trial : trial' = Some([i EXCEPT !.used = 0])
    BY <1>3 DEF reset_daily_limits
  <2>2. InstanceKept(i) BY DEF TrialInv
  <2>3. PICK q : q = [i EXCEPT !.used = 0] OBVIOUS
  <2>4. InstanceKept(q) BY <2>2, <2>3 DEF InstanceKept, TrialFields
  <2>. QED BY <2>1, <2>3, <2>4 DEF TrialInv, Some
<1>. QED BY <1>1, <1>2, <1>3 DEF TrialNext

AssessmentFields ==
    {"transactions", "days", "compliance", "satisfaction", "approval", "health", "tech",
     "eligible", "decision"}

(* The weakest of the criteria.                                              *)
MeetsWeakest(a) ==
    /\ a.approval = TRUE /\ a.days >= 30 /\ a.transactions >= 500
    /\ a.compliance >= 75 /\ a.satisfaction >= 60 /\ a.tech >= 70

AssessmentKept(a) ==
    /\ DOMAIN a = AssessmentFields
    /\ a.eligible \in BOOLEAN
    /\ a.eligible => MeetsWeakest(a)

GraduationInv ==
    /\ DOMAIN graduation = {"assessment", "records", "metrics"}
    /\ \A a \in graduation.assessment : AssessmentKept(a)

(* Each of the criteria asks for that much.                                  *)
AsksEnough(c) ==
    /\ c.transactions \in Nat /\ c.transactions >= 500 /\ c.days \in Nat /\ c.days >= 30
    /\ c.compliance \in Nat /\ c.compliance >= 75
    /\ c.satisfaction \in Nat /\ c.satisfaction >= 60
    /\ c.tech \in Nat /\ c.tech >= 70 /\ c.approval = TRUE

LEMMA CriteriaStrong ==
    ASSUME NEW kind \in DOMAIN GraduationCriteria
    PROVE  AsksEnough(GraduationCriteria[kind])
<1>1. kind = "default" \/ kind = "aggressive" \/ kind = "flexible" BY DEF GraduationCriteria
<1>2. CASE kind = "default" BY <1>2 DEF GraduationCriteria, AsksEnough
<1>3. CASE kind = "aggressive" BY <1>3 DEF GraduationCriteria, AsksEnough
<1>4. CASE kind = "flexible" BY <1>4 DEF GraduationCriteria, AsksEnough
<1>. QED BY <1>1, <1>2, <1>3, <1>4

(* What the assessor fills in are numbers.                                   *)
Measured(b) ==
    /\ b.transactions \in Nat /\ b.days \in Nat /\ b.compliance \in Nat
    /\ b.satisfaction \in Nat /\ b.tech \in Nat /\ b.approval \in BOOLEAN

LEMMA FiguresFilled ==
    ASSUME NEW figures \in Figures, NEW a, NEW b, DOMAIN b = AssessmentFields,
           b = [x \in DOMAIN a |-> GetOr(figures, x, a[x])]
    PROVE  Measured(b)
<1>1. PICK t \in {499, 5000}, v \in {29, 180}, s \in {74, 95}, u \in {69, 100},
           ok \in BOOLEAN :
        figures = [transactions |-> t, days |-> v, compliance |-> s, satisfaction |-> 85,
                   tech |-> u, approval |-> ok, health |-> ok]
  BY DEF Figures
<1>2. /\ b.transactions = t /\ b.days = v /\ b.compliance = s /\ b.satisfaction = 85
      /\ b.tech = u
  BY <1>1 DEF GetOr, AssessmentFields
<1>3. b.approval = ok BY <1>1 DEF GetOr, AssessmentFields
<1>. QED BY <1>2, <1>3 DEF Measured

(* An assessment judged by criteria that ask for enough.                     *)
LEMMA Judged ==
    ASSUME NEW b, DOMAIN b = AssessmentFields, Measured(b), NEW c, AsksEnough(c),
           NEW d, d = [b EXCEPT !.eligible = Meets(b, c)]
    PROVE  AssessmentKept(d)
<1>1. CASE Meets(b, c)
  <2>1. /\ b.transactions >= 500 /\ b.days >= 30 /\ b.compliance >= 75
        /\ b.satisfaction >= 60 /\ b.tech >= 70
    BY <1>1 DEF Meets, AsksEnough, Measured
  <2>2. b.approval = TRUE BY <1>1 DEF Meets, AsksEnough, Measured
  <2>3. d = [b EXCEPT !.eligible = TRUE] BY <1>1
  <2>4. DOMAIN d = AssessmentFields /\ d.eligible = TRUE BY <2>3 DEF AssessmentFields
  <2>5. MeetsWeakest(d) BY <2>1, <2>2, <2>3 DEF MeetsWeakest, AssessmentFields
  <2>. QED BY <2>4, <2>5 DEF AssessmentKept
<1>2. CASE ~Meets(b, c)
  <2>1. d = [b EXCEPT !.eligible = FALSE] BY <1>2 DEF Meets
  <2>2. DOMAIN d = AssessmentFields /\ d.eligible = FALSE BY <2>1 DEF AssessmentFields
  <2>. QED BY <2>2 DEF AssessmentKept
<1>. QED BY <1>1, <1>2

(* Only a change of the assessment matters.                                  *)
LEMMA GraduationStep ==
    ASSUME GraduationInv, GraduationNext
    PROVE  GraduationInv'
<1>0. DOMAIN graduation = {"assessment", "records", "metrics"} BY DEF GraduationInv
<1>1. ASSUME NEW a, AssessmentKept(a), graduation' = [graduation EXCEPT !.assessment = Some(a)]
      PROVE  GraduationInv'
  BY <1>0, <1>1 DEF GraduationInv, Some
<1>2. ASSUME create_assessment
      PROVE  GraduationInv'
  <2>1. PICK a : a = [transactions |-> 0, days |-> 0, compliance |-> 0, satisfaction |-> 0,
                      approval |-> FALSE, health |-> FALSE, tech |-> 0,
                      eligible |-> FALSE, decision |-> "Pending"]
    OBVIOUS
  <2>2. AssessmentKept(a) BY <2>1 DEF AssessmentKept, AssessmentFields
  <2>3. graduation' = [graduation EXCEPT !.assessment = Some(a)]
    BY <1>2, <2>1 DEF create_assessment
  <2>. QED BY <1>1, <2>2, <2>3
<1>3. ASSUME NEW figures \in Figures, NEW kind \in DOMAIN GraduationCriteria,
             evaluate_eligibility(figures, kind)
      PROVE  GraduationInv'
  <2>1. PICK a \in graduation.assessment :
          LET filled == [x \in DOMAIN a |-> GetOr(figures, x, a[x])]
          IN  graduation' = [graduation EXCEPT !.assessment =
                 Some([filled EXCEPT !.eligible = Meets(filled, GraduationCriteria[kind])])]
    BY <1>3 DEF evaluate_eligibility
  <2>2. PICK b : b = [x \in DOMAIN a |-> GetOr(figures, x, a[x])] OBVIOUS
  <2>3. PICK c : c = GraduationCriteria[kind] OBVIOUS
  <2>4. PICK d : d = [b EXCEPT !.eligible = Meets(b, c)] OBVIOUS
  <2>5. graduation' = [graduation EXCEPT !.assessment = Some(d)]
    BY <2>1, <2>2, <2>3, <2>4
  <2>6. DOMAIN b = AssessmentFields BY <2>2 DEF GraduationInv, AssessmentKept
  <2>7. Measured(b) BY <2>2, <2>6, FiguresFilled
  <2>8. AsksEnough(c) BY <2>3, CriteriaStrong
  <2>9. AssessmentKept(d) BY <2>4, <2>6, <2>7, <2>8, Judged
  <2>. QED BY <1>1, <2>5, <2>9
<1>4. ASSUME NEW a \in graduation.assessment, NEW word,
             graduation' = [graduation EXCEPT !.assessment = Some([a EXCEPT !.decision = word])]
      PROVE  GraduationInv'
  <2>1. PICK d : d = [a EXCEPT !.decision = word] OBVIOUS
  <2>2. AssessmentKept(a) BY DEF GraduationInv
  <2>3. AssessmentKept(d) BY <2>1, <2>2 DEF AssessmentKept, AssessmentFields, MeetsWeakest
  <2>. QED BY <1>1, <1>4, <2>1, <2>3
<1>5. ASSUME DOMAIN graduation' = {"assessment", "records", "metrics"},
             graduation'.assessment = graduation.assessment
      PROVE  GraduationInv'
  BY <1>5 DEF GraduationInv
<1>6. ASSUME approve_graduation \/ reject_graduation \/ defer_graduation
      PROVE  GraduationInv'
  BY <1>4, <1>6 DEF approve_graduation, reject_graduation, defer_graduation
<1>7. ASSUME NEW score, NEW risk, create_supervision_record(score, risk)
      PROVE  GraduationInv'
  BY <1>0, <1>5, <1>7 DEF create_supervision_record
<1>8. ASSUME NEW k, add_corrective_actions(k)
      PROVE  GraduationInv'
  <2>1. PICK r : graduation' = [graduation EXCEPT !.records = r]
    BY <1>8 DEF add_corrective_actions
  <2>. QED BY <1>0, <1>5, <2>1
<1>9. ASSUME NEW scores, update_scores(scores)
      PROVE  GraduationInv'
  <2>1. PICK m : graduation' = [graduation EXCEPT !.metrics = m] BY <1>9 DEF update_scores
  <2>. QED BY <1>0, <1>5, <2>1
<1>10. ASSUME NEW ready, set_deployment_ready(ready)
       PROVE  GraduationInv'
  <2>1. PICK m : graduation' = [graduation EXCEPT !.metrics = m]
    BY <1>10 DEF set_deployment_ready
  <2>. QED BY <1>0, <1>5, <2>1
<1>. QED BY <1>2, <1>3, <1>6, <1>7, <1>8, <1>9, <1>10 DEF GraduationNext

-----------------------------------------------------------------------------
(* Supervised finance: sandbox applications and participants.                *)

SandboxFields == {"applications", "participants", "total", "approved", "pending"}
ApplicationFields == {"id", "applicant", "level", "status", "days", "reviewed_at"}
ParticipantFields == {"address", "level", "entry", "exit", "days", "active", "supervisor"}

ApprovedIn(cases) == {k \in DOMAIN cases : cases[k].status = "Approved"}

(* p entered with an approved application.                                   *)
Admitted(p, cases) ==
    \E k \in DOMAIN cases :
        /\ cases[k].applicant = p.address
        /\ cases[k].status = "Approved"
        /\ cases[k].reviewed_at = Some(p.entry)

(* The days p may stay, and that until it leaves it stays whole days.        *)
Allowed(p) == Max({p.days, MaxDays})
StayBounded(p) == \E n \in Nat : p.exit = p.entry + n * Day /\ n <= Allowed(p)

ParticipantKept(p) ==
    /\ DOMAIN p = ParticipantFields
    /\ p.days \in Nat /\ p.entry \in Nat /\ p.exit \in Nat
    /\ p.entry <= clock /\ p.entry <= p.exit
    /\ p.active \in BOOLEAN
    /\ p.active => StayBounded(p)

CasesKept(cases) ==
    /\ IsList(cases)
    /\ \A k \in DOMAIN cases : DOMAIN cases[k] = ApplicationFields /\ cases[k].days \in Nat

CasesCounted ==
    /\ sandbox.total = Len(sandbox.applications)
    /\ sandbox.approved = Cardinality(ApprovedIn(sandbox.applications))
    /\ sandbox.pending = sandbox.total - sandbox.approved

SandboxInv ==
    /\ DOMAIN sandbox = SandboxFields
    /\ CasesKept(sandbox.applications)
    /\ CasesCounted
    /\ \A id \in DOMAIN sandbox.participants :
          /\ ParticipantKept(sandbox.participants[id])
          /\ Admitted(sandbox.participants[id], sandbox.applications)

LEMMA MaxOfTwo ==
    ASSUME NEW a \in Nat, NEW b \in Nat
    PROVE  Max({a, b}) \in Nat /\ Max({a, b}) >= a /\ Max({a, b}) >= b
<1>1. \E x \in {a, b} : \A y \in {a, b} : x >= y OBVIOUS
<1>2. Max({a, b}) \in {a, b} /\ \A y \in {a, b} : Max({a, b}) >= y BY <1>1 DEF Max
<1>. QED BY <1>2

LEMMA MaxAbove ==
    ASSUME NEW n \in Nat
    PROVE  n >= 1 => Max({n - 1, 0}) = n - 1
<1>1. \A x \in {n - 1, 0} : (\A y \in {n - 1, 0} : x >= y) /\ n >= 1 => x = n - 1 OBVIOUS
<1>2. n >= 1 => \E x \in {n - 1, 0} : \A y \in {n - 1, 0} : x >= y OBVIOUS
<1>3. n >= 1 => /\ Max({n - 1, 0}) \in {n - 1, 0}
                /\ \A y \in {n - 1, 0} : Max({n - 1, 0}) >= y
  BY <1>2 DEF Max
<1>. QED BY <1>1, <1>3

(* How many are approved, before and after one more is.                      *)
LEMMA ApprovedFinite ==
    ASSUME NEW cases, IsList(cases)
    PROVE  /\ IsFiniteSet(ApprovedIn(cases))
           /\ Cardinality(ApprovedIn(cases)) \in Nat
           /\ Cardinality(ApprovedIn(cases)) <= Len(cases)
           /\ \A k \in DOMAIN cases : k \notin ApprovedIn(cases) =>
                 Cardinality(ApprovedIn(cases)) < Len(cases)
<1>1. Len(cases) \in Nat /\ DOMAIN cases = 1..Len(cases) BY ListFacts
<1>2. PICK n \in Nat : n = Len(cases) BY <1>1
<1>3. PICK D : D = 1..n OBVIOUS
<1>4. IsFiniteSet(D) /\ Cardinality(D) = n BY <1>3, FS_Interval
<1>5. PICK A : A = ApprovedIn(cases) OBVIOUS
<1>6. A \in SUBSET D BY <1>1, <1>2, <1>3, <1>5 DEF ApprovedIn
<1>7. /\ IsFiniteSet(A) /\ Cardinality(A) <= Cardinality(D)
      /\ Cardinality(A) = Cardinality(D) => A = D
  BY <1>4, <1>6, FS_Subset
<1>8. Cardinality(A) \in Nat BY <1>7, FS_CardinalityType
<1>9. ASSUME NEW k \in DOMAIN cases, k \notin A
      PROVE  Cardinality(A) < n
  <2>1. A # D BY <1>9, <1>1, <1>2, <1>3
  <2>. QED BY <2>1, <1>4, <1>7, <1>8
<1>. QED BY <1>2, <1>4, <1>5, <1>7, <1>8, <1>9

(* One case is rewritten that was not approved.                              *)
LEMMA CaseRewritten ==
    ASSUME NEW cases, CasesKept(cases), NEW k \in DOMAIN cases,
           cases[k].status # "Approved",
           NEW c, DOMAIN c = ApplicationFields, c.days \in Nat,
           NEW new, new = [cases EXCEPT ![k] = c]
    PROVE  /\ CasesKept(new) /\ Len(new) = Len(cases)
           /\ c.status # "Approved" => ApprovedIn(new) = ApprovedIn(cases)
           /\ c.status = "Approved" =>
                 Cardinality(ApprovedIn(new)) = Cardinality(ApprovedIn(cases)) + 1
           /\ \A p : Admitted(p, cases) => Admitted(p, new)
<1>1. IsList(cases) /\ IsList(new) BY ListFacts DEF CasesKept
<1>2. /\ DOMAIN new = DOMAIN cases /\ new[k] = c
      /\ \A x \in DOMAIN cases : x # k => new[x] = cases[x]
  OBVIOUS
<1>3. CasesKept(new) BY <1>1, <1>2 DEF CasesKept
<1>4. Len(new) = Len(cases)
  <2>1. PICK n \in Nat, m \in Nat : /\ n = Len(cases) /\ m = Len(new)
                                    /\ DOMAIN cases = 1..n /\ DOMAIN new = 1..m
    BY <1>1, ListFacts
  <2>2. \A x : x \in 1..n <=> x \in 1..m BY <1>2, <2>1
  <2>3. n <= m /\ m <= n
    <3>1. n = 0 \/ n \in 1..n BY <2>1
    <3>2. m = 0 \/ m \in 1..m BY <2>1
    <3>. QED BY <2>2, <3>1, <3>2
  <2>. QED BY <2>1, <2>3
<1>5. \A p : Admitted(p, cases) => Admitted(p, new)
  <2>. TAKE p
  <2>. HAVE Admitted(p, cases)
  <2>1. PICK x \in DOMAIN cases : /\ cases[x].applicant = p.address
                                  /\ cases[x].status = "Approved"
                                  /\ cases[x].reviewed_at = Some(p.entry)
    BY DEF Admitted
  <2>2. x # k /\ new[x] = cases[x] /\ x \in DOMAIN new BY <1>2, <2>1
  <2>. QED BY <2>1, <2>2 DEF Admitted
<1>6. c.status # "Approved" => ApprovedIn(new) = ApprovedIn(cases)
  BY <1>2 DEF ApprovedIn
<1>7. ASSUME c.status = "Approved"
      PROVE  Cardinality(ApprovedIn(new)) = Cardinality(ApprovedIn(cases)) + 1
  <2>1. PICK A : A = ApprovedIn(cases) OBVIOUS
  <2>2. k \notin A /\ ApprovedIn(new) = A \cup {k} BY <1>2, <1>7, <2>1 DEF ApprovedIn
  <2>3. IsFiniteSet(A) BY <1>1, <2>1, ApprovedFinite
  <2>. QED BY <2>1, <2>2, <2>3, FS_AddElement
<1>. QED BY <1>3, <1>4, <1>5, <1>6, <1>7

(* Participants one of whom is written.                                      *)
LEMMA ParticipantWritten ==
    ASSUME NEW cases, NEW old, NEW new, NEW id, NEW p,
           ParticipantKept(p), Admitted(p, cases),
           \A x \in DOMAIN old : ParticipantKept(old[x]) /\ Admitted(old[x], cases),
           DOMAIN new = DOMAIN old \cup {id}, new[id] = p,
           \A x \in DOMAIN old : x # id => new[x] = old[x]
    PROVE  \A x \in DOMAIN new : ParticipantKept(new[x]) /\ Admitted(new[x], cases)
<1>. TAKE x \in DOMAIN new
<1>1. CASE x = id BY <1>1
<1>2. CASE x # id BY <1>2
<1>. QED BY <1>1, <1>2

LEMMA ParticipantsKept ==
    ASSUME clock' = clock, NEW p
    PROVE  ParticipantKept(p)' <=> ParticipantKept(p)
BY DEF ParticipantKept, StayBounded, Allowed

(* Every call of sandbox_mgmt.rs keeps the counts and the stays.             *)
LEMMA SandboxStep ==
    ASSUME SandboxInv, SandboxNext, clock \in Nat, clock' = clock
    PROVE  SandboxInv'
<1>0. /\ DOMAIN sandbox = SandboxFields /\ CasesKept(sandbox.applications) /\ CasesCounted
      /\ \A id \in DOMAIN sandbox.participants :
            /\ ParticipantKept(sandbox.participants[id])
            /\ Admitted(sandbox.participants[id], sandbox.applications)
  BY DEF SandboxInv
<1>1. PICK cases : cases = sandbox.applications OBVIOUS
<1>2. PICK people : people = sandbox.participants OBVIOUS
<1>3. PICK n \in Nat, m \in Nat :
        /\ n = Len(cases) /\ m = Cardinality(ApprovedIn(cases))
        /\ sandbox.total = n /\ sandbox.approved = m /\ sandbox.pending = n - m /\ m <= n
        /\ DOMAIN cases = 1..n
  <2>1. IsList(cases) BY <1>0, <1>1 DEF CasesKept
  <2>. QED BY <1>0, <1>1, <2>1, ListFacts, ApprovedFinite DEF CasesCounted
<1>4. CasesKept(cases) /\ IsList(cases) BY <1>0, <1>1 DEF CasesKept
<1>5. \A x \in DOMAIN people : ParticipantKept(people[x]) /\ Admitted(people[x], cases)
  BY <1>0, <1>1, <1>2
<1>6. ASSUME NEW new, NEW team, CasesKept(new), DOMAIN sandbox' = SandboxFields,
             sandbox'.applications = new, sandbox'.participants = team,
             sandbox'.total = Len(new), sandbox'.approved = Cardinality(ApprovedIn(new)),
             sandbox'.pending = sandbox'.total - sandbox'.approved,
             \A x \in DOMAIN team : ParticipantKept(team[x]) /\ Admitted(team[x], new)
      PROVE  SandboxInv'
  <2>1. CasesCounted' BY <1>6 DEF CasesCounted
  <2>2. ASSUME NEW x \in DOMAIN team
        PROVE  ParticipantKept(team[x])'
    <3>1. PICK p : p = team[x] OBVIOUS
    <3>2. ParticipantKept(p) BY <1>6, <3>1
    <3>3. ParticipantKept(p)' BY <3>2, ParticipantsKept
    <3>. QED BY <3>1, <3>3
  <2>. QED BY <1>6, <2>1, <2>2 DEF SandboxInv
<1>7. ASSUME NEW a, NEW name, NEW level, NEW days, create_application(a, name, level, days)
      PROVE  SandboxInv'
  <2>1. PICK id : id = compute_application_id(a, name) OBVIOUS
  <2>2. PICK c : c = [id |-> id, applicant |-> a, level |-> level, status |-> "Submitted",
                      days |-> days, reviewed_at |-> None]
    OBVIOUS
  <2>3. PICK new : new = Append(cases, c) OBVIOUS
  <2>4. days \in Nat BY <1>7, SandboxAssumption DEF create_application
  <2>5. /\ DOMAIN sandbox' = SandboxFields /\ sandbox'.applications = new
        /\ sandbox'.participants = people /\ sandbox'.total = n + 1
        /\ sandbox'.approved = m /\ sandbox'.pending = n - m + 1
    BY <1>0, <1>1, <1>2, <1>3, <1>7, <2>1, <2>2, <2>3 DEF create_application, SandboxFields
  <2>6. /\ IsList(new) /\ DOMAIN new = 1..(n + 1) /\ new[n + 1] = c
        /\ \A k \in 1..n : new[k] = cases[k]
    BY <1>3, <1>4, <2>3, ListFacts
  <2>7. Len(new) = n + 1
    <3>1. PICK r \in Nat : r = Len(new) /\ DOMAIN new = 1..r BY <2>6, ListFacts
    <3>2. \A x : x \in 1..(n + 1) <=> x \in 1..r BY <2>6, <3>1
    <3>3. n + 1 \in 1..(n + 1) /\ (r = 0 \/ r \in 1..r) OBVIOUS
    <3>. QED BY <3>1, <3>2, <3>3
  <2>8. DOMAIN c = ApplicationFields /\ c.days \in Nat /\ c.status = "Submitted"
    BY <2>2, <2>4 DEF ApplicationFields
  <2>9. \A k \in DOMAIN new : k = n + 1 \/ (k \in 1..n /\ k # n + 1) BY <2>6
  <2>10. CasesKept(new) BY <1>3, <1>4, <2>6, <2>8, <2>9 DEF CasesKept
  <2>11. ApprovedIn(new) = ApprovedIn(cases)
    <3>1. \A k \in DOMAIN new : new[k].status = "Approved" => k \in ApprovedIn(cases)
      BY <1>3, <2>6, <2>8, <2>9 DEF ApprovedIn
    <3>2. \A k \in ApprovedIn(cases) : k \in DOMAIN new /\ new[k].status = "Approved"
      BY <1>3, <2>6 DEF ApprovedIn
    <3>. QED BY <3>1, <3>2 DEF ApprovedIn
  <2>12. ASSUME NEW x \in DOMAIN people
         PROVE  ParticipantKept(people[x]) /\ Admitted(people[x], new)
    <3>1. PICK p : p = people[x] OBVIOUS
    <3>2. PICK k \in DOMAIN cases : /\ cases[k].applicant = p.address
                                    /\ cases[k].status = "Approved"
                                    /\ cases[k].reviewed_at = Some(p.entry)
      BY <1>5, <3>1 DEF Admitted
    <3>3. k \in DOMAIN new /\ new[k] = cases[k] BY <1>3, <2>6
    <3>4. Admitted(p, new) BY <3>2, <3>3 DEF Admitted
    <3>. QED BY <1>5, <3>1, <3>4
  <2>13. sandbox'.pending = sandbox'.total - sandbox'.approved BY <2>5
  <2>. QED BY <1>3, <1>6, <2>5, <2>7, <2>10, <2>11, <2>12, <2>13
<1>8. ASSUME NEW k \in DOMAIN cases, NEW c, DOMAIN c = ApplicationFields, c.days \in Nat,
             c.status # "Approved", cases[k].status # "Approved",
             sandbox' = [sandbox EXCEPT !.applications = [cases EXCEPT ![k] = c]]
      PROVE  SandboxInv'
  <2>1. PICK new : new = [cases EXCEPT ![k] = c] OBVIOUS
  <2>2. /\ CasesKept(new) /\ Len(new) = n /\ ApprovedIn(new) = ApprovedIn(cases)
        /\ \A p : Admitted(p, cases) => Admitted(p, new)
    <3>1. /\ CasesKept(new) /\ Len(new) = Len(cases)
          /\ c.status # "Approved" => ApprovedIn(new) = ApprovedIn(cases)
          /\ \A p : Admitted(p, cases) => Admitted(p, new)
      BY <1>4, <1>8, <2>1, CaseRewritten
    <3>. QED BY <1>3, <1>8, <3>1
  <2>3. /\ DOMAIN sandbox' = SandboxFields /\ sandbox'.applications = new
        /\ sandbox'.participants = people /\ sandbox'.total = n
        /\ sandbox'.approved = m /\ sandbox'.pending = n - m
    BY <1>0, <1>2, <1>3, <1>8, <2>1 DEF SandboxFields
  <2>4. \A x \in DOMAIN people : ParticipantKept(people[x]) /\ Admitted(people[x], new)
    BY <1>5, <2>2
  <2>5. sandbox'.pending = sandbox'.total - sandbox'.approved BY <2>3
  <2>. QED BY <1>3, <1>6, <2>2, <2>3, <2>4, <2>5
<1>9. \A k \in DOMAIN cases : DOMAIN cases[k] = ApplicationFields /\ cases[k].days \in Nat
  BY <1>4 DEF CasesKept
<1>10. ASSUME NEW k \in DOMAIN cases, reject_application(k)
       PROVE  SandboxInv'
  <2>1. PICK a : a = cases[k] OBVIOUS
  <2>2. PICK c : c = [a EXCEPT !.status = "Rejected", !.reviewed_at = Some(clock)] OBVIOUS
  <2>3. DOMAIN c = ApplicationFields /\ c.days \in Nat /\ c.status # "Approved"
    BY <1>9, <2>1, <2>2 DEF ApplicationFields
  <2>4. /\ cases[k].status # "Approved"
        /\ sandbox' = [sandbox EXCEPT !.applications = [cases EXCEPT ![k] = c]]
    BY <1>1, <1>10, <2>1, <2>2 DEF reject_application
  <2>. QED BY <1>8, <2>3, <2>4
<1>11. ASSUME NEW k \in DOMAIN cases, request_additional_info(k)
       PROVE  SandboxInv'
  <2>1. PICK a : a = cases[k] OBVIOUS
  <2>2. PICK c : c = [a EXCEPT !.status = "AdditionalInfoRequested"] OBVIOUS
  <2>3. DOMAIN c = ApplicationFields /\ c.days \in Nat /\ c.status # "Approved"
    BY <1>9, <2>1, <2>2 DEF ApplicationFields
  <2>4. /\ cases[k].status # "Approved"
        /\ sandbox' = [sandbox EXCEPT !.applications = [cases EXCEPT ![k] = c]]
    BY <1>1, <1>11, <2>1, <2>2 DEF request_additional_info
  <2>. QED BY <1>8, <2>3, <2>4
<1>12. ASSUME NEW k \in DOMAIN cases, NEW who, approve_application(k, who)
       PROVE  SandboxInv'
  <2>1. PICK a : a = cases[k] OBVIOUS
  <2>2. PICK c : c = [a EXCEPT !.status = "Approved", !.reviewed_at = Some(clock)] OBVIOUS
  <2>3. DOMAIN a = ApplicationFields /\ a.days \in Nat BY <1>9, <2>1
  <2>4. /\ DOMAIN c = ApplicationFields /\ c.days \in Nat /\ c.status = "Approved"
        /\ c.applicant = a.applicant /\ c.reviewed_at = Some(clock)
    BY <2>2, <2>3 DEF ApplicationFields
  <2>5. PICK e \in Nat : e = clock + a.days * Day
    <3>1. Day \in Nat BY PlatformAssumption
    <3>2. a.days * Day \in Nat BY <2>3, <3>1
    <3>. QED BY <3>2
  <2>6. PICK p : p = [address |-> a.applicant, level |-> a.level, entry |-> clock,
                      exit |-> e, days |-> a.days, active |-> TRUE, supervisor |-> who]
    OBVIOUS
  <2>7. /\ DOMAIN p = ParticipantFields /\ p.address = a.applicant /\ p.entry = clock
        /\ p.exit = e /\ p.days = a.days
    BY <2>6 DEF ParticipantFields
  <2>8. p.active = TRUE BY <2>6
  <2>9. PICK new : new = [cases EXCEPT ![k] = c] OBVIOUS
  <2>10. PICK id : id = compute_participant_id(a.applicant) OBVIOUS
  <2>11. PICK team : team = Put(people, id, p) OBVIOUS
  <2>12. PICK r : r = Max({(n - m) - 1, 0}) OBVIOUS
  <2>13. a.status = "Submitted" BY <1>1, <1>12, <2>1 DEF approve_application
  <2>14. sandbox' = [sandbox EXCEPT !.applications[k] = c, !.participants = team,
                                    !.approved = m + 1, !.pending = r]
    BY <1>1, <1>2, <1>3, <1>12, <2>1, <2>2, <2>5, <2>6, <2>10, <2>11, <2>12
    DEF approve_application
  <2>15. /\ DOMAIN sandbox' = SandboxFields /\ sandbox'.applications = new
         /\ sandbox'.participants = team /\ sandbox'.total = n
         /\ sandbox'.approved = m + 1 /\ sandbox'.pending = r
    BY <1>0, <1>1, <1>3, <2>9, <2>14 DEF SandboxFields
  <2>16. /\ CasesKept(new) /\ Len(new) = n /\ Cardinality(ApprovedIn(new)) = m + 1
         /\ \A x : Admitted(x, cases) => Admitted(x, new)
    BY <1>3, <1>4, <2>1, <2>4, <2>9, <2>13, CaseRewritten, ZenonT(60)
  <2>17. r = n - (m + 1)
    <3>1. k \notin ApprovedIn(cases) BY <2>1, <2>13 DEF ApprovedIn
    <3>2. m < n BY <1>3, <1>4, <3>1, ApprovedFinite
    <3>3. PICK w \in Nat : w = n - m BY <3>2
    <3>4. Max({w - 1, 0}) = w - 1 BY <3>2, <3>3, MaxAbove
    <3>. QED BY <2>12, <3>3, <3>4
  <2>18. Admitted(p, new)
    <3>1. k \in DOMAIN new /\ new[k] = c BY <2>9
    <3>. QED BY <2>4, <2>7, <3>1 DEF Admitted
  <2>19. ParticipantKept(p)
    <3>1. StayBounded(p)
      <4>1. a.days <= Max({a.days, MaxDays}) BY <2>3, MaxOfTwo, SandboxAssumption
      <4>. QED BY <2>3, <2>5, <2>7, <4>1 DEF StayBounded, Allowed
    <3>2. p.active \in BOOLEAN BY <2>8
    <3>3. a.days * Day \in Nat
      <4>1. Day \in Nat BY PlatformAssumption
      <4>. QED BY <2>3, <4>1
    <3>4. clock <= e BY <2>5, <3>3
    <3>. QED BY <2>3, <2>7, <3>1, <3>2, <3>4 DEF ParticipantKept
  <2>20. \A x \in DOMAIN people : ParticipantKept(people[x]) /\ Admitted(people[x], new)
    BY <1>5, <2>16
  <2>21. /\ DOMAIN team = DOMAIN people \cup {id} /\ team[id] = p
         /\ \A x \in DOMAIN people : x # id => team[x] = people[x]
    BY <2>11 DEF Put
  <2>22. \A x \in DOMAIN team : ParticipantKept(team[x]) /\ Admitted(team[x], new)
    BY <2>18, <2>19, <2>20, <2>21, ParticipantWritten
  <2>23. sandbox'.pending = sandbox'.total - sandbox'.approved BY <2>15, <2>17
  <2>. QED BY <1>6, <2>15, <2>16, <2>22, <2>23
<1>13. ASSUME NEW id \in DOMAIN people, NEW q, ParticipantKept(q),
              q.address = people[id].address, q.entry = people[id].entry,
              sandbox' = [sandbox EXCEPT !.participants = [people EXCEPT ![id] = q]]
       PROVE  SandboxInv'
  <2>1. PICK team : team = [people EXCEPT ![id] = q] OBVIOUS
  <2>2. /\ DOMAIN team = DOMAIN people \cup {id} /\ team[id] = q
        /\ \A x \in DOMAIN people : x # id => team[x] = people[x]
    BY <2>1
  <2>3. Admitted(q, cases) BY <1>5, <1>13 DEF Admitted
  <2>4. \A x \in DOMAIN team : ParticipantKept(team[x]) /\ Admitted(team[x], cases)
    BY <1>5, <1>13, <2>2, <2>3, ParticipantWritten
  <2>5. /\ DOMAIN sandbox' = SandboxFields /\ sandbox'.applications = cases
        /\ sandbox'.participants = team /\ sandbox'.total = n
        /\ sandbox'.approved = m /\ sandbox'.pending = n - m
    BY <1>0, <1>1, <1>3, <1>13, <2>1 DEF SandboxFields
  <2>6. sandbox'.pending = sandbox'.total - sandbox'.approved BY <2>5
  <2>. QED BY <1>3, <1>4, <1>6, <2>4, <2>5, <2>6
<1>14. ASSUME NEW id \in DOMAIN people, NEW days \in Nat, extend_participation(id, days)
       PROVE  SandboxInv'
  <2>1. PICK p : p = people[id] OBVIOUS
  <2>2. ParticipantKept(p) BY <1>5, <2>1
  <2>3. Day \in Nat \ {0} /\ MaxDays \in Nat BY PlatformAssumption, SandboxAssumption
  <2>4. PICK e : e = p.exit + days * Day OBVIOUS
  <2>5. PICK q : q = [p EXCEPT !.exit = e] OBVIOUS
  <2>6. /\ DOMAIN q = ParticipantFields /\ q.days = p.days /\ q.entry = p.entry
        /\ q.exit = e /\ q.address = p.address
    BY <2>2, <2>5 DEF ParticipantKept, ParticipantFields
  <2>7. q.active = p.active BY <2>2, <2>5 DEF ParticipantKept, ParticipantFields
  <2>8. /\ ((p.exit - p.entry) \div Day) + days <= MaxDays
        /\ sandbox' = [sandbox EXCEPT !.participants[id].exit = e]
    BY <1>2, <1>14, <2>1, <2>4 DEF extend_participation
  <2>9. sandbox' = [sandbox EXCEPT !.participants = [people EXCEPT ![id] = q]]
    BY <1>2, <2>1, <2>5, <2>8
  <2>10. p.entry \in Nat /\ p.exit \in Nat /\ p.entry <= p.exit /\ p.days \in Nat
    BY <2>2 DEF ParticipantKept
  <2>11. e \in Nat /\ p.entry <= e
    <3>1. days * Day \in Nat BY <2>3
    <3>. QED BY <2>4, <2>10, <3>1
  <2>12. ASSUME StayBounded(p)
         PROVE  StayBounded(q)
    <3>1. PICK v \in Nat : p.exit = p.entry + v * Day BY <2>12 DEF StayBounded
    <3>2. v * Day \in Nat BY <2>3
    <3>3. p.exit - p.entry = v * Day BY <2>10, <3>1, <3>2
    <3>4. (v * Day) \div Day = v BY <2>3
    <3>5. v + days <= MaxDays BY <2>8, <3>3, <3>4
    <3>6. (v + days) * Day = v * Day + days * Day BY <2>3
    <3>7. days * Day \in Nat BY <2>3
    <3>8. q.exit = q.entry + (v + days) * Day
      BY <2>4, <2>6, <2>10, <3>1, <3>2, <3>6, <3>7
    <3>9. v + days <= Max({q.days, MaxDays}) /\ v + days \in Nat
      BY <2>3, <2>6, <2>10, <3>5, MaxOfTwo
    <3>. QED BY <3>8, <3>9 DEF StayBounded, Allowed
  <2>13. ParticipantKept(q)
    <3>1. q.active \in BOOLEAN BY <2>2, <2>7 DEF ParticipantKept
    <3>2. q.active => StayBounded(q) BY <2>2, <2>7, <2>12 DEF ParticipantKept
    <3>3. q.entry <= clock BY <2>2, <2>6 DEF ParticipantKept
    <3>. QED BY <2>6, <2>10, <2>11, <3>1, <3>2, <3>3 DEF ParticipantKept
  <2>. QED BY <1>13, <2>1, <2>6, <2>9, <2>13
<1>15. ASSUME NEW id \in DOMAIN people, exit_sandbox(id)
       PROVE  SandboxInv'
  <2>1. PICK p : p = people[id] OBVIOUS
  <2>2. ParticipantKept(p) BY <1>5, <2>1
  <2>3. PICK q : q = [p EXCEPT !.active = FALSE, !.exit = clock] OBVIOUS
  <2>4. /\ DOMAIN q = ParticipantFields /\ q.days = p.days /\ q.entry = p.entry
        /\ q.exit = clock /\ q.address = p.address
    BY <2>2, <2>3 DEF ParticipantKept, ParticipantFields
  <2>5. q.active = FALSE BY <2>2, <2>3 DEF ParticipantKept, ParticipantFields
  <2>6. sandbox' = [sandbox EXCEPT !.participants = [people EXCEPT ![id] = q]]
    BY <1>2, <1>15, <2>1, <2>3 DEF exit_sandbox
  <2>7. ParticipantKept(q)
    <3>1. q.active \in BOOLEAN /\ (q.active => StayBounded(q)) BY <2>5
    <3>. QED BY <2>2, <2>4, <3>1 DEF ParticipantKept
  <2>. QED BY <1>13, <2>1, <2>4, <2>6, <2>7
<1>. QED
  <2>1. ASSUME NEW a \in Account, NEW level \in Level, NEW days \in 0..(MaxApplied + 1),
               create_application(a, "name", level, days)
        PROVE  SandboxInv'
    BY <1>7, <2>1
  <2>2. ASSUME NEW k \in DOMAIN sandbox.applications,
               \/ approve_application(k, "supervisor")
               \/ reject_application(k)
               \/ request_additional_info(k)
        PROVE  SandboxInv'
    BY <1>1, <1>10, <1>11, <1>12, <2>2
  <2>3. ASSUME NEW id \in DOMAIN sandbox.participants,
               \/ \E days \in 0..MaxDays : extend_participation(id, days)
               \/ exit_sandbox(id)
        PROVE  SandboxInv'
    <3>1. \A days \in 0..MaxDays : days \in Nat BY SandboxAssumption
    <3>. QED BY <1>2, <1>14, <1>15, <2>3, <3>1
  <2>. QED BY <2>1, <2>2, <2>3 DEF SandboxNext

(* A participant that is active has no more days left than it may stay.      *)
LEMMA StayLasts ==
    ASSUME NEW p, ParticipantKept(p), p.active, clock \in Nat
    PROVE  /\ p.exit - p.entry <= Max({p.days, MaxDays}) * Day
           /\ is_participant_active(p) => get_days_remaining(p) <= Max({p.days, MaxDays})
<1>0. PICK top : top = Max({p.days, MaxDays}) OBVIOUS
<1>1. /\ p.days \in Nat /\ p.entry \in Nat /\ p.exit \in Nat /\ p.entry <= clock
      /\ StayBounded(p)
  BY DEF ParticipantKept
<1>2. PICK n \in Nat : p.exit = p.entry + n * Day /\ n <= top
  BY <1>0, <1>1 DEF StayBounded, Allowed
<1>3. Day \in Nat \ {0} /\ top \in Nat
  BY <1>0, <1>1, PlatformAssumption, SandboxAssumption, MaxOfTwo
<1>4. n * Day \in Nat /\ n * Day <= top * Day /\ top * Day \in Nat BY <1>2, <1>3
<1>5. p.exit - p.entry <= top * Day BY <1>1, <1>2, <1>4
<1>6. ASSUME clock < p.exit
      PROVE  (p.exit - clock) \div Day <= top
  <2>1. PICK u \in Nat : u = p.exit - clock BY <1>1, <1>6
  <2>2. u <= top * Day BY <1>1, <1>5, <1>4, <2>1
  <2>3. u \div Day <= (top * Day) \div Day BY <1>3, <1>4, <2>2
  <2>4. (top * Day) \div Day = top BY <1>3
  <2>. QED BY <2>1, <2>3, <2>4
<1>7. is_participant_active(p) => get_days_remaining(p) <= top
  BY <1>1, <1>6 DEF is_participant_active, get_days_remaining
<1>. QED BY <1>0, <1>5, <1>7

LEMMA SandboxInvContains ==
    ASSUME SandboxInv, TrialInv, GraduationInv, clock \in Nat
    PROVE  SandboxContained
<1>1. ASSUME NEW i \in trial
      PROVE  i.used <= max_daily_volume[i.level] /\ i.used <= i.limit
  BY DEF TrialInv, InstanceKept
<1>2. ASSUME NEW id \in DOMAIN sandbox.participants
      PROVE  LET p == sandbox.participants[id]
             IN  /\ \E k \in DOMAIN sandbox.applications :
                       /\ sandbox.applications[k].applicant = p.address
                       /\ sandbox.applications[k].status = "Approved"
                       /\ sandbox.applications[k].reviewed_at = Some(p.entry)
                 /\ p.active => p.exit - p.entry <= Max({p.days, MaxDays}) * Day
                 /\ is_participant_active(p) => get_days_remaining(p) <= Max({p.days, MaxDays})
  <2>1. PICK p : p = sandbox.participants[id] OBVIOUS
  <2>2. ParticipantKept(p) /\ Admitted(p, sandbox.applications) BY <2>1 DEF SandboxInv
  <2>3. p.active => /\ p.exit - p.entry <= Max({p.days, MaxDays}) * Day
                    /\ is_participant_active(p) =>
                          get_days_remaining(p) <= Max({p.days, MaxDays})
    BY <2>2, StayLasts
  <2>4. is_participant_active(p) => p.active BY DEF is_participant_active
  <2>. QED BY <2>1, <2>2, <2>3, <2>4 DEF Admitted
<1>3. /\ sandbox.approved + sandbox.pending <= sandbox.total
      /\ sandbox.approved = Cardinality({k \in DOMAIN sandbox.applications :
                                            sandbox.applications[k].status = "Approved"})
  <2>1. PICK cases : cases = sandbox.applications OBVIOUS
  <2>2. IsList(cases) BY <2>1 DEF SandboxInv, CasesKept
  <2>3. /\ sandbox.total = Len(cases) /\ sandbox.approved = Cardinality(ApprovedIn(cases))
        /\ sandbox.pending = sandbox.total - sandbox.approved
    BY <2>1 DEF SandboxInv, CasesCounted
  <2>4. sandbox.total \in Nat /\ sandbox.approved \in Nat
    BY <2>2, <2>3, ListFacts, ApprovedFinite
  <2>. QED BY <2>1, <2>3, <2>4 DEF ApprovedIn
<1>4. ASSUME NEW a \in graduation.assessment, a.eligible
      PROVE  /\ a.approval /\ a.days >= 30 /\ a.transactions >= 500
             /\ a.compliance >= 75 /\ a.satisfaction >= 60 /\ a.tech >= 70
             /\ get_recommendation(a) = "Ready"
  <2>1. MeetsWeakest(a) BY <1>4 DEF GraduationInv, AssessmentKept
  <2>2. get_recommendation(a) = "Ready" BY <1>4 DEF get_recommendation
  <2>. QED BY <2>1, <2>2 DEF MeetsWeakest
<1>. QED BY <1>1, <1>2, <1>3, <1>4 DEF SandboxContained

LEMMA SandboxBegins ==
    ASSUME SandboxInit, TrialInit, GraduationInit
    PROVE  SandboxInv /\ TrialInv /\ GraduationInv
<1>1. /\ DOMAIN sandbox = SandboxFields /\ sandbox.applications = <<>>
      /\ DOMAIN sandbox.participants = {} /\ sandbox.total = 0 /\ sandbox.approved = 0
      /\ sandbox.pending = 0
  BY DEF SandboxInit, SandboxFields, EmptyMap
<1>2. IsList(<<>>) /\ Len(<<>>) = 0 BY EmptyList
<1>3. ApprovedIn(<<>>) = {} BY DEF ApprovedIn
<1>4. Cardinality(ApprovedIn(<<>>)) = 0 BY <1>3, FS_EmptySet
<1>5. CasesKept(<<>>) BY <1>2 DEF CasesKept
<1>6. SandboxInv BY <1>1, <1>2, <1>4, <1>5 DEF SandboxInv, CasesCounted
<1>7. TrialInv BY DEF TrialInit, TrialInv, None
<1>8. GraduationInv BY DEF GraduationInit, GraduationInv, None
<1>. QED BY <1>6, <1>7, <1>8

-----------------------------------------------------------------------------
(* Supervised finance: currency transfers.                                   *)

(* The nonce ends the hash.                                                  *)
LEMMA NonceInHash ==
    ASSUME NEW t, NEW u, NEW m, NEW n,
           compute_offline_tx_hash(t, m) = compute_offline_tx_hash(u, n)
    PROVE  m = n
BY DEF compute_offline_tx_hash

(* What a transaction handed in carries, whatever becomes of it.             *)
OfflineSound(o) ==
    /\ o.nonce \in Nat
    /\ o.hash = compute_offline_tx_hash(o.tx, o.nonce)
    /\ o.tx.amount \in Nat /\ o.tx.rate \in Nat
    /\ o.tx.amount_dest = (o.tx.amount * o.tx.rate) \div RateScale

NoncesRise(txs) == \A j, k \in DOMAIN txs : j < k => txs[j].nonce < txs[k].nonce

(* What waits was handed in, and waits once.                                 *)
QueueKept(queue, txs) ==
    /\ IsList(queue) /\ Len(queue) <= QueueSize /\ IsInjective(queue)
    /\ \A i \in DOMAIN queue : \E k \in DOMAIN txs : queue[i] = txs[k].hash

MoneyInv ==
    /\ OfflineInv
    /\ \A k \in DOMAIN cbdc.offline : OfflineSound(cbdc.offline[k])
    /\ NoncesRise(cbdc.offline)
    /\ QueueKept(cbdc.queue, cbdc.offline)

(* The length of a list with one more entry.                                 *)
LEMMA LengthGrows ==
    ASSUME NEW s, IsList(s), NEW x
    PROVE  Len(Append(s, x)) = Len(s) + 1
<1>1. PICK t : t = Append(s, x) OBVIOUS
<1>2. PICK n \in Nat : n = Len(s) /\ IsList(t) /\ DOMAIN t = 1..(n + 1)
  BY <1>1, ListFacts
<1>3. PICK m \in Nat : m = Len(t) /\ DOMAIN t = 1..m BY <1>2, ListFacts
<1>4. \A i : i \in 1..(n + 1) <=> i \in 1..m BY <1>2, <1>3
<1>5. n + 1 \in 1..(n + 1) /\ (m = 0 \/ m \in 1..m) OBVIOUS
<1>. QED BY <1>1, <1>2, <1>3, <1>4, <1>5

(* A transaction whose nonce is larger than the last joins the others.       *)
TxsKept(txs) == NoncesRise(txs) /\ \A k \in DOMAIN txs : OfflineSound(txs[k])
JoinsTxs(txs, o, new) ==
    /\ \A k \in DOMAIN txs : txs[k].hash # o.hash
    /\ \A k \in DOMAIN txs : k \in DOMAIN new /\ new[k] = txs[k]
    /\ \E k \in DOMAIN new : new[k] = o

LEMMA HandedIn ==
    ASSUME NEW txs, IsList(txs), TxsKept(txs),
           NEW o, OfflineSound(o), Len(txs) > 0 => txs[Len(txs)].nonce < o.nonce,
           NEW new, new = Append(txs, o)
    PROVE  TxsKept(new) /\ JoinsTxs(txs, o, new)
<1>0. NoncesRise(txs) /\ \A k \in DOMAIN txs : OfflineSound(txs[k]) BY DEF TxsKept
<1>1. PICK n \in Nat : n = Len(txs) /\ DOMAIN txs = 1..n BY ListFacts
<1>2. /\ DOMAIN new = 1..(n + 1) /\ new[n + 1] = o /\ \A k \in 1..n : new[k] = txs[k]
  BY <1>1, ListFacts
<1>3. \A k \in DOMAIN new : k = n + 1 \/ k \in 1..n BY <1>2
<1>4. \A k \in DOMAIN new : OfflineSound(new[k]) BY <1>0, <1>1, <1>2, <1>3
<1>5. \A k \in 1..n : txs[k].nonce < o.nonce
  <2>. TAKE k \in 1..n
  <2>1. n \in 1..n /\ n > 0 /\ k <= n OBVIOUS
  <2>2. /\ txs[n].nonce \in Nat /\ txs[k].nonce \in Nat /\ o.nonce \in Nat
        /\ txs[n].nonce < o.nonce
    BY <1>0, <1>1, <2>1 DEF OfflineSound
  <2>3. k < n => txs[k].nonce < txs[n].nonce BY <1>0, <1>1, <2>1 DEF NoncesRise
  <2>. QED BY <2>1, <2>2, <2>3
<1>6. NoncesRise(new)
  <2>1. ASSUME NEW j \in DOMAIN new, NEW k \in DOMAIN new, j < k
        PROVE  new[j].nonce < new[k].nonce
    <3>1. j \in 1..n BY <1>2, <2>1
    <3>2. CASE k = n + 1 BY <1>2, <1>5, <3>1, <3>2
    <3>3. CASE k \in 1..n BY <1>0, <1>1, <1>2, <2>1, <3>1, <3>3 DEF NoncesRise
    <3>. QED BY <1>3, <3>2, <3>3
  <2>. QED BY <2>1 DEF NoncesRise
<1>7. \A k \in DOMAIN txs : txs[k].hash # o.hash
  <2>. TAKE k \in DOMAIN txs
  <2>. SUFFICES ASSUME txs[k].hash = o.hash PROVE FALSE OBVIOUS
  <2>1. PICK a, m : a = txs[k].tx /\ m = txs[k].nonce OBVIOUS
  <2>2. compute_offline_tx_hash(a, m) = compute_offline_tx_hash(o.tx, o.nonce)
    BY <1>0, <2>1 DEF OfflineSound
  <2>3. m = o.nonce BY <2>2, NonceInHash
  <2>4. m < o.nonce /\ m \in Nat BY <1>0, <1>1, <1>5, <2>1 DEF OfflineSound
  <2>. QED BY <2>3, <2>4
<1>8. n + 1 \in DOMAIN new /\ \A k \in 1..n : k \in DOMAIN new BY <1>2
<1>. QED BY <1>1, <1>2, <1>4, <1>6, <1>7, <1>8 DEF TxsKept, JoinsTxs

(* A hash nobody has joins the queue.                                        *)
LEMMA Queued ==
    ASSUME NEW queue, NEW txs, QueueKept(queue, txs), Len(queue) < QueueSize,
           NEW h, NEW all, \A k \in DOMAIN txs : txs[k].hash # h,
           \A k \in DOMAIN txs : k \in DOMAIN all /\ all[k] = txs[k],
           \E k \in DOMAIN all : all[k].hash = h,
           NEW new, new = Append(queue, h)
    PROVE  QueueKept(new, all)
<1>1. IsList(queue) BY DEF QueueKept
<1>2. PICK n \in Nat : n = Len(queue) /\ DOMAIN queue = 1..n BY <1>1, ListFacts
<1>3. /\ IsList(new) /\ DOMAIN new = 1..(n + 1) /\ new[n + 1] = h
      /\ \A i \in 1..n : new[i] = queue[i]
  BY <1>1, <1>2, ListFacts
<1>4. Len(new) = n + 1 BY <1>1, <1>2, LengthGrows
<1>5. Len(new) <= QueueSize BY <1>2, <1>4, CbdcAssumption
<1>6. \A i \in DOMAIN new : i = n + 1 \/ (i \in 1..n /\ i # n + 1) BY <1>3
<1>7. \A i \in 1..n : new[i] # h /\ \E k \in DOMAIN all : new[i] = all[k].hash
  BY <1>2, <1>3 DEF QueueKept
<1>8. IsInjective(new)
  <2>1. ASSUME NEW i \in DOMAIN new, NEW j \in DOMAIN new, new[i] = new[j]
        PROVE  i = j
    <3>1. CASE i = n + 1 BY <1>3, <1>6, <1>7, <2>1, <3>1
    <3>2. CASE j = n + 1 BY <1>3, <1>6, <1>7, <2>1, <3>2
    <3>3. CASE i \in 1..n /\ j \in 1..n
      <4>1. queue[i] = queue[j] BY <1>3, <2>1, <3>3
      <4>. QED BY <1>2, <3>3, <4>1 DEF QueueKept, IsInjective
    <3>. QED BY <1>6, <3>1, <3>2, <3>3
  <2>. QED BY <2>1 DEF IsInjective
<1>9. \A i \in DOMAIN new : \E k \in DOMAIN all : new[i] = all[k].hash
  BY <1>3, <1>6, <1>7
<1>. QED BY <1>3, <1>5, <1>8, <1>9 DEF QueueKept

(* Every call of cbdc_offline.rs keeps nonces, hashes and the queue.         *)
LEMMA MoneyStep ==
    ASSUME MoneyInv, CbdcNext
    PROVE  MoneyInv'
<1>0. OfflineInv /\ OfflineInv' BY OfflineStep DEF MoneyInv
<1>1. PICK txs, queue : txs = cbdc.offline /\ queue = cbdc.queue OBVIOUS
<1>2. /\ DOMAIN cbdc = CbdcFields /\ IsList(txs) /\ NoncesRise(txs) /\ QueueKept(queue, txs)
      /\ \A k \in DOMAIN txs : DOMAIN txs[k] = OfflineFields /\ OfflineSound(txs[k])
  BY <1>0, <1>1 DEF MoneyInv, OfflineInv
<1>3. ASSUME NEW all, NEW wait, cbdc'.offline = all, cbdc'.queue = wait,
             NoncesRise(all), QueueKept(wait, all), \A k \in DOMAIN all : OfflineSound(all[k])
      PROVE  MoneyInv'
  BY <1>0, <1>3 DEF MoneyInv
<1>4. ASSUME NEW from, NEW to, NEW dest, NEW amount \in Nat, NEW rate \in Nat,
             NEW nonce \in Nat, add_transaction(from, to, dest, amount, rate, nonce)
      PROVE  MoneyInv'
  <2>1. PICK tx : tx = CBDCTransaction(Len(cbdc.offline), from, to, 0, dest, amount, rate)
    OBVIOUS
  <2>2. /\ tx.amount = amount /\ tx.rate = rate
        /\ tx.amount_dest = (amount * rate) \div RateScale
    BY <2>1 DEF CBDCTransaction
  <2>3. PICK h : h = compute_offline_tx_hash(tx, nonce) OBVIOUS
  <2>4. PICK o : o = [hash |-> h, tx |-> tx, status |-> "Pending", created_at |-> clock,
                      reconciled_at |-> None, nonce |-> nonce]
    OBVIOUS
  <2>5. create_offline_transaction(tx, nonce) = o
    BY <2>3, <2>4 DEF create_offline_transaction
  <2>6. o.hash = h /\ o.tx = tx /\ o.nonce = nonce BY <2>4
  <2>7. OfflineSound(o) BY <2>2, <2>3, <2>6 DEF OfflineSound
  <2>8. /\ verify_nonce(LastNonce, nonce) /\ Len(queue) < QueueSize
        /\ cbdc' = [cbdc EXCEPT !.offline = Append(txs, o), !.queue = Append(queue, o.hash)]
    BY <1>1, <1>4, <2>1, <2>5 DEF add_transaction
  <2>9. PICK all : all = Append(txs, o) OBVIOUS
  <2>10. PICK wait : wait = Append(queue, h) OBVIOUS
  <2>11. cbdc'.offline = all /\ cbdc'.queue = wait
    BY <1>2, <2>6, <2>8, <2>9, <2>10 DEF CbdcFields
  <2>12. Len(txs) > 0 => txs[Len(txs)].nonce < o.nonce
    <3>1. txs = <<>> => Len(txs) = 0 BY EmptyList
    <3>2. Len(txs) > 0 => LastNonce = txs[Len(txs)].nonce
      BY <1>1, <3>1 DEF LastNonce, Last
    <3>3. nonce > LastNonce BY <2>8 DEF verify_nonce
    <3>4. Len(txs) > 0 => txs[Len(txs)].nonce \in Nat
      <4>1. PICK n \in Nat : n = Len(txs) /\ DOMAIN txs = 1..n BY <1>2, ListFacts
      <4>2. n > 0 => n \in 1..n OBVIOUS
      <4>. QED BY <1>2, <4>1, <4>2 DEF OfflineSound
    <3>. QED BY <2>6, <3>2, <3>3, <3>4
  <2>13. /\ NoncesRise(all) /\ \A k \in DOMAIN all : OfflineSound(all[k])
         /\ \A k \in DOMAIN txs : txs[k].hash # h
         /\ \A k \in DOMAIN txs : k \in DOMAIN all /\ all[k] = txs[k]
         /\ \E k \in DOMAIN all : all[k] = o
    <3>1. TxsKept(txs) BY <1>2 DEF TxsKept
    <3>2. TxsKept(all) /\ JoinsTxs(txs, o, all)
      BY <1>2, <2>7, <2>9, <2>12, <3>1, HandedIn
    <3>. QED BY <2>6, <3>2 DEF TxsKept, JoinsTxs
  <2>14. \E k \in DOMAIN all : all[k].hash = h BY <2>6, <2>13
  <2>15. QueueKept(wait, all) BY <1>2, <2>8, <2>10, <2>13, <2>14, Queued
  <2>. QED BY <1>3, <2>11, <2>13, <2>15
<1>5. CASE clear_queue
  <2>1. cbdc'.offline = txs /\ cbdc'.queue = <<>>
    BY <1>1, <1>2, <1>5 DEF clear_queue, CbdcFields
  <2>2. QueueKept(<<>>, txs)
    <3>1. IsList(<<>>) /\ Len(<<>>) = 0 /\ DOMAIN <<>> = {} BY EmptyList
    <3>2. 0 <= QueueSize BY CbdcAssumption
    <3>. QED BY <3>1, <3>2 DEF QueueKept, IsInjective
  <2>. QED BY <1>2, <1>3, <2>1, <2>2
<1>6. CASE settle_batch \/ \E total \in Amount : NewBatch(cbdc.queue, total)
  <2>1. PICK b : cbdc' = [cbdc EXCEPT !.batch = b] BY <1>6 DEF settle_batch, NewBatch
  <2>2. cbdc'.offline = txs /\ cbdc'.queue = queue BY <1>1, <1>2, <2>1 DEF CbdcFields
  <2>. QED BY <1>2, <1>3, <2>2
<1>7. ASSUME NEW k \in DOMAIN txs, NEW v,
             cbdc' = [cbdc EXCEPT !.offline[k].status = v,
                                  !.offline[k].reconciled_at = Some(clock)]
      PROVE  MoneyInv'
  <2>1. PICK o : o = txs[k] OBVIOUS
  <2>2. PICK q : q = [o EXCEPT !.status = v, !.reconciled_at = Some(clock)] OBVIOUS
  <2>3. PICK all : all = [txs EXCEPT ![k] = q] OBVIOUS
  <2>4. cbdc'.offline = all /\ cbdc'.queue = queue
    BY <1>1, <1>2, <1>7, <2>1, <2>2, <2>3 DEF CbdcFields
  <2>5. DOMAIN o = OfflineFields /\ OfflineSound(o) BY <1>2, <2>1
  <2>6. q.nonce = o.nonce /\ q.hash = o.hash /\ q.tx = o.tx
    BY <2>2, <2>5 DEF OfflineFields
  <2>7. /\ DOMAIN all = DOMAIN txs /\ all[k] = q
        /\ \A x \in DOMAIN txs : x # k => all[x] = txs[x]
    BY <2>3
  <2>8. \A x \in DOMAIN txs : all[x].nonce = txs[x].nonce /\ all[x].hash = txs[x].hash
    BY <2>1, <2>6, <2>7
  <2>9. OfflineSound(q) BY <2>5, <2>6 DEF OfflineSound
  <2>10. \A x \in DOMAIN all : OfflineSound(all[x]) BY <1>2, <2>7, <2>9
  <2>11. NoncesRise(all) BY <1>2, <2>7, <2>8 DEF NoncesRise
  <2>12. QueueKept(queue, all) BY <1>2, <2>7, <2>8 DEF QueueKept
  <2>. QED BY <1>3, <2>4, <2>10, <2>11, <2>12
<1>8. ASSUME NEW k \in DOMAIN txs, reconcile_transaction(k) \/ fail_reconciliation(k)
      PROVE  MoneyInv'
  BY <1>7, <1>8 DEF reconcile_transaction, fail_reconciliation
<1>9. ASSUME NEW from \in Account, NEW dest \in {0, 1}, NEW amount \in Amount,
             NEW rate \in Amount, NEW nonce \in 1..2,
             add_transaction(from, from, dest, amount, rate, nonce)
      PROVE  MoneyInv'
  <2>1. amount \in Nat /\ rate \in Nat /\ nonce \in Nat BY PlatformAssumption
  <2>. QED BY <1>4, <1>9, <2>1
<1>. QED BY <1>1, <1>5, <1>6, <1>8, <1>9 DEF CbdcNext

(* The legs of a path of two equal rates: g pays what the rates in s pay.    *)
Leg(acc, r) == IF acc = None THEN None ELSE convert_amount(The(acc), r)
Legs(g, r, a) ==
    g = [s \in SUBSET DOMAIN <<r, r>> |->
           IF s = {} THEN Some(a) ELSE Leg(g[s \ {Max(s)}], <<r, r>>[Max(s)])]

LEMMA PathIsLegs ==
    ASSUME NEW a, NEW r
    PROVE  compute_final_amount(<<0, 1>>, <<r, r>>, a)
             = (CHOOSE g : Legs(g, r, a))[DOMAIN <<r, r>>]
<1>1. Len(<<0, 1>>) = 2 /\ Len(<<r, r>>) = 2 OBVIOUS
<1>. QED BY <1>1 DEF compute_final_amount, FoldLeft, MapThenFoldSet, Legs, Leg

LEMMA MaxOfFew == Max({1}) = 1 /\ Max({2}) = 2 /\ Max({1, 2}) = 2
<1>1. Max({1}) \in {1} BY DEF Max
<1>2. Max({2}) \in {2} BY DEF Max
<1>3. \E x \in {1, 2} : \A y \in {1, 2} : x >= y OBVIOUS
<1>4. Max({1, 2}) \in {1, 2} /\ \A y \in {1, 2} : Max({1, 2}) >= y BY <1>3 DEF Max
<1>. QED BY <1>1, <1>2, <1>4

(* What such a path pays.                                                    *)
LEMMA PathOfTwo ==
    ASSUME NEW a, NEW r
    PROVE  compute_final_amount(<<0, 1>>, <<r, r>>, a) = Leg(Leg(Some(a), r), r)
<1>. DEFINE D == DOMAIN <<r, r>>
            v(g, s) == IF s = {} THEN Some(a) ELSE Leg(g[s \ {Max(s)}], <<r, r>>[Max(s)])
            w(s) == IF s = {} THEN Some(a)
                    ELSE IF s = {1, 2} THEN Leg(Leg(Some(a), r), r) ELSE Leg(Some(a), r)
            h == [s \in SUBSET D |-> w(s)]
<1>1. D = {1, 2} /\ <<r, r>>[1] = r /\ <<r, r>>[2] = r OBVIOUS
<1>2. \A s \in SUBSET D : s = {} \/ s = {1} \/ s = {2} \/ s = {1, 2} BY <1>1
<1>3. {} \in SUBSET D /\ {1} \in SUBSET D /\ {2} \in SUBSET D /\ {1, 2} \in SUBSET D
  BY <1>1
<1>4. \A g : Legs(g, r, a) <=> g = [s \in SUBSET D |-> v(g, s)] BY DEF Legs
<1>5. {1} \ {1} = {} /\ {2} \ {2} = {} /\ {1, 2} \ {2} = {1} OBVIOUS
<1>6. /\ w({}) = Some(a) /\ w({1}) = Leg(Some(a), r) /\ w({2}) = Leg(Some(a), r)
      /\ w({1, 2}) = Leg(Leg(Some(a), r), r)
  OBVIOUS
<1>7. \A g : /\ v(g, {}) = Some(a) /\ v(g, {1}) = Leg(g[{}], r) /\ v(g, {2}) = Leg(g[{}], r)
             /\ v(g, {1, 2}) = Leg(g[{1}], r)
  BY <1>1, <1>5, MaxOfFew
<1>. HIDE DEF D, v, w
<1>8. \A s \in SUBSET D : h[s] = w(s) OBVIOUS
<1>. HIDE DEF h
<1>9. \A s \in SUBSET D : v(h, s) = w(s)
  <2>1. h[{}] = Some(a) /\ h[{1}] = Leg(Some(a), r) BY <1>3, <1>6, <1>8
  <2>2. v(h, {}) = w({}) /\ v(h, {1}) = w({1}) /\ v(h, {2}) = w({2})
    BY <1>6, <1>7, <2>1
  <2>3. v(h, {1, 2}) = w({1, 2}) BY <1>6, <1>7, <2>1
  <2>. QED BY <1>2, <2>2, <2>3
<1>10. Legs(h, r, a)
  <2>1. h = [s \in SUBSET D |-> w(s)] BY DEF h
  <2>2. h = [s \in SUBSET D |-> v(h, s)] BY <1>9, <2>1
  <2>. QED BY <1>4, <2>2
<1>11. PICK g : g = CHOOSE f : Legs(f, r, a) OBVIOUS
<1>12. Legs(g, r, a) BY <1>10, <1>11
<1>13. \A s \in SUBSET D : g[s] = v(g, s) BY <1>4, <1>12
<1>14. g[{}] = Some(a) BY <1>3, <1>7, <1>13
<1>15. g[{1}] = Leg(Some(a), r) BY <1>3, <1>7, <1>13, <1>14
<1>16. g[{1, 2}] = Leg(Leg(Some(a), r), r) BY <1>3, <1>7, <1>13, <1>15
<1>. QED BY <1>1, <1>11, <1>16, PathIsLegs DEF D

LEMMA DivisionBelow ==
    ASSUME NEW m \in Nat, NEW d \in Nat \ {0}
    PROVE  m \div d \in Nat /\ (m \div d) * d <= m
OBVIOUS

LEMMA DisjointCount ==
    ASSUME NEW A, NEW B, IsFiniteSet(A), IsFiniteSet(B), A \cap B = {}
    PROVE  Cardinality(A \cup B) = Cardinality(A) + Cardinality(B)
<1>1. Cardinality(A \cup B) = Cardinality(A) + Cardinality(B) - Cardinality(A \cap B)
  BY FS_Union
<1>2. Cardinality(A \cap B) = 0 BY FS_EmptySet
<1>3. Cardinality(A) \in Nat /\ Cardinality(B) \in Nat BY FS_CardinalityType
<1>. QED BY <1>1, <1>2, <1>3

(* A path of two rates pays no more than both allow.                         *)
LEMMA PathPays ==
    ASSUME NEW a \in Nat, NEW r \in Nat,
           NEW paid \in compute_final_amount(<<0, 1>>, <<r, r>>, a)
    PROVE  paid * RateScale * RateScale <= a * r * r
<1>1. RateScale \in Nat \ {0} BY CbdcAssumption
<1>2. PICK q \in Nat : q = (a * r) \div RateScale /\ q * RateScale <= a * r
  <2>1. PICK m \in Nat : m = a * r OBVIOUS
  <2>2. m \div RateScale \in Nat /\ (m \div RateScale) * RateScale <= m
    BY <1>1, <2>1, DivisionBelow
  <2>. QED BY <2>1, <2>2
<1>3. PICK p \in Nat : p = (q * r) \div RateScale /\ p * RateScale <= q * r
  <2>1. PICK m \in Nat : m = q * r OBVIOUS
  <2>2. m \div RateScale \in Nat /\ (m \div RateScale) * RateScale <= m
    BY <1>1, <2>1, DivisionBelow
  <2>. QED BY <2>1, <2>2
<1>4. Leg(Some(a), r) = None \/ Leg(Some(a), r) = Some(q)
  <2>1. The(Some(a)) = a BY DEF The, Some
  <2>. QED BY <1>2, <2>1 DEF Leg, convert_amount
<1>5. paid \in Leg(Leg(Some(a), r), r) BY PathOfTwo
<1>6. Leg(Some(a), r) = Some(q) BY <1>4, <1>5 DEF Leg, None
<1>7. paid = p
  <2>1. The(Some(q)) = q BY DEF The, Some
  <2>2. paid \in convert_amount(q, r) BY <1>5, <1>6, <2>1 DEF Leg, None
  <2>. QED BY <1>3, <2>2 DEF convert_amount, None, Some
<1>8. PICK x \in Nat, y \in Nat : x = p * RateScale /\ y = q * r BY <1>1
<1>9. x * RateScale <= y * RateScale BY <1>1, <1>3, <1>8
<1>10. y * RateScale = (q * RateScale) * r BY <1>1, <1>8
<1>11. (q * RateScale) * r <= (a * r) * r
  <2>1. PICK u \in Nat, v \in Nat : u = q * RateScale /\ v = a * r BY <1>1
  <2>2. u <= v BY <1>2, <2>1
  <2>3. u * r <= v * r BY <2>2
  <2>. QED BY <2>1, <2>3
<1>12. PICK u \in Nat : u = (q * RateScale) * r BY <1>1
<1>13. PICK z \in Nat, c \in Nat : z = (a * r) * r /\ c = x * RateScale BY <1>1
<1>14. c <= z BY <1>9, <1>10, <1>11, <1>12, <1>13
<1>. QED BY <1>7, <1>8, <1>13, <1>14

(* The four outcomes make up the transactions.                               *)
LEMMA OutcomesAddUp ==
    ASSUME OfflineInv
    PROVE  LET state == compute_reconciliation_state(
                            [k \in DOMAIN cbdc.offline |-> cbdc.offline[k].status])
           IN  state.successful + state.failed + state.pending + state.disputed = state.total
<1>. DEFINE st == [k \in DOMAIN cbdc.offline |-> cbdc.offline[k].status]
            of(v) == {k \in DOMAIN st : st[k] = v}
            s == compute_reconciliation_state(st)
<1>1. PICK n \in Nat : DOMAIN cbdc.offline = 1..n BY ListFacts DEF OfflineInv
<1>2. DOMAIN st = 1..n /\ \A k \in 1..n : st[k] \in {"Pending", "Reconciled", "Failed"}
  BY <1>1 DEF OfflineInv
<1>3. st \in [1..n -> {"Pending", "Reconciled", "Failed"}] BY <1>1, <1>2
<1>. HIDE DEF st
<1>4. Len(st) = n
  <2>1. st \in Seq({"Pending", "Reconciled", "Failed"}) BY <1>3, RuleIsList
  <2>2. PICK m \in Nat : m = Len(st) /\ DOMAIN st = 1..m BY <2>1
  <2>3. \A i : i \in 1..n <=> i \in 1..m BY <1>2, <2>2
  <2>4. (n = 0 \/ n \in 1..n) /\ (m = 0 \/ m \in 1..m) OBVIOUS
  <2>. QED BY <2>2, <2>3, <2>4
<1>5. PICK R, F, P, D : R = of("Reconciled") /\ F = of("Failed") /\ P = of("Pending")
                        /\ D = of("Disputed")
  OBVIOUS
<1>6. /\ s.total = n /\ s.successful = Cardinality(R) /\ s.failed = Cardinality(F)
      /\ s.pending = Cardinality(P) /\ s.disputed = Cardinality(D)
  BY <1>4, <1>5 DEF compute_reconciliation_state
<1>7. /\ D = {} /\ R \cup F \cup P = 1..n /\ R \cap F = {} /\ (R \cup F) \cap P = {}
  BY <1>2, <1>5
<1>8. IsFiniteSet(1..n) /\ Cardinality(1..n) = n BY FS_Interval
<1>9. IsFiniteSet(R) /\ IsFiniteSet(F) /\ IsFiniteSet(P) /\ IsFiniteSet(R \cup F)
  <2>1. R \in SUBSET (1..n) /\ F \in SUBSET (1..n) /\ P \in SUBSET (1..n) BY <1>7
  <2>2. IsFiniteSet(R) BY <1>8, <2>1, FS_Subset
  <2>3. IsFiniteSet(F) BY <1>8, <2>1, FS_Subset
  <2>4. IsFiniteSet(P) BY <1>8, <2>1, FS_Subset
  <2>. QED BY <2>2, <2>3, <2>4, FS_Union
<1>10. Cardinality(R \cup F) = Cardinality(R) + Cardinality(F)
  BY <1>7, <1>9, DisjointCount
<1>11. PICK U : U = R \cup F OBVIOUS
<1>12. Cardinality(U \cup P) = Cardinality(U) + Cardinality(P)
  BY <1>7, <1>9, <1>11, DisjointCount
<1>13. Cardinality(D) = 0 BY <1>7, FS_EmptySet
<1>14. /\ Cardinality(R) \in Nat /\ Cardinality(F) \in Nat /\ Cardinality(P) \in Nat
  BY <1>9, FS_CardinalityType
<1>. HIDE DEF s
<1>15. s.successful + s.failed + s.pending + s.disputed = s.total
  <2>1. PICK x \in Nat, y \in Nat, z \in Nat :
          x = Cardinality(R) /\ y = Cardinality(F) /\ z = Cardinality(P)
    BY <1>14
  <2>2. U \cup P = 1..n BY <1>7, <1>11
  <2>3. n = (x + y) + z BY <1>8, <1>10, <1>11, <1>12, <2>1, <2>2
  <2>4. s.successful = x /\ s.failed = y /\ s.pending = z /\ s.disputed = 0 /\ s.total = n
    BY <1>6, <1>13, <2>1
  <2>. QED BY <2>3, <2>4
<1>. QED BY <1>15 DEF s, st

(* The event log and its counters.                                           *)
TransferFields == {"settlement", "log", "successes", "volume", "failures"}
SucceededIn(log) == {k \in DOMAIN log : log[k].success}
AmountsIn(log) == [k \in DOMAIN log |-> log[k].amount]

LogKept(log) ==
    /\ IsList(log)
    /\ \A k \in DOMAIN log : log[k].amount \in Nat

TransfersInv ==
    /\ DOMAIN transfers = TransferFields
    /\ LogKept(transfers.log)
    /\ transfers.successes \in Nat /\ transfers.failures \in Nat
    /\ Len(transfers.log) = transfers.successes + transfers.failures
    /\ Len(transfers.log) <= MaxCbdcLog
    /\ transfers.volume = Total(AmountsIn(transfers.log), SucceededIn(transfers.log))

(* One more entry adds its amount if it succeeded.                           *)
LEMMA LogGrows ==
    ASSUME NEW log, LogKept(log), NEW e, e.amount \in Nat, NEW new, new = Append(log, e)
    PROVE  /\ LogKept(new) /\ Len(new) = Len(log) + 1
           /\ Total(AmountsIn(log), SucceededIn(log)) \in Nat
           /\ e.success => Total(AmountsIn(new), SucceededIn(new))
                             = Total(AmountsIn(log), SucceededIn(log)) + e.amount
           /\ ~e.success => Total(AmountsIn(new), SucceededIn(new))
                              = Total(AmountsIn(log), SucceededIn(log))
<1>0. IsList(log) /\ \A k \in DOMAIN log : log[k].amount \in Nat BY DEF LogKept
<1>1. PICK n \in Nat : n = Len(log) /\ DOMAIN log = 1..n BY <1>0, ListFacts
<1>2. /\ IsList(new) /\ DOMAIN new = 1..(n + 1) /\ new[n + 1] = e
      /\ \A k \in 1..n : new[k] = log[k]
  BY <1>0, <1>1, ListFacts
<1>3. Len(new) = Len(log) + 1 BY <1>0, LengthGrows
<1>4. \A k \in DOMAIN new : k = n + 1 \/ (k \in 1..n /\ k # n + 1) BY <1>2
<1>5. LogKept(new) BY <1>0, <1>1, <1>2, <1>4 DEF LogKept
<1>6. PICK f, g : f = AmountsIn(log) /\ g = AmountsIn(new) OBVIOUS
<1>7. PICK S, T : S = SucceededIn(log) /\ T = SucceededIn(new) OBVIOUS
<1>8. /\ \A k \in 1..n : f[k] \in Nat /\ f[k] = g[k] /\ g[k] \in Nat
      /\ g[n + 1] = e.amount /\ g[n + 1] \in Nat
  <2>1. \A k \in 1..n : f[k] = log[k].amount BY <1>1, <1>6 DEF AmountsIn
  <2>2. \A k \in 1..(n + 1) : g[k] = new[k].amount BY <1>2, <1>6 DEF AmountsIn
  <2>3. n + 1 \in 1..(n + 1) /\ \A k \in 1..n : k \in 1..(n + 1) OBVIOUS
  <2>. QED BY <1>0, <1>1, <1>2, <2>1, <2>2, <2>3
<1>9. S \in SUBSET (1..n) BY <1>1, <1>7 DEF SucceededIn
<1>10. IsFiniteSet(S)
  <2>1. IsFiniteSet(1..n) BY FS_Interval
  <2>. QED BY <1>9, <2>1, FS_Subset
<1>11. Total(f, S) \in Nat
  <2>1. \A k \in S : f[k] \in Nat BY <1>8, <1>9
  <2>. QED BY <1>10, <2>1, TotalType
<1>12. Total(g, S) = Total(f, S)
  <2>1. \A k \in S : f[k] = g[k] BY <1>8, <1>9
  <2>. QED BY <1>10, <2>1, TotalSame
<1>13. \A k \in 1..n : k \in T <=> k \in S
  <2>1. \A k \in 1..n : k \in DOMAIN new /\ k \in DOMAIN log BY <1>1, <1>2
  <2>. QED BY <1>2, <1>7, <2>1 DEF SucceededIn
<1>14. ASSUME e.success
       PROVE  Total(g, T) = Total(f, S) + e.amount
  <2>1. n + 1 \in T BY <1>2, <1>7, <1>14 DEF SucceededIn
  <2>2. \A k \in T : k = n + 1 \/ (k \in 1..n /\ k # n + 1)
    BY <1>4, <1>7 DEF SucceededIn
  <2>3. n + 1 \notin S BY <1>9
  <2>4. T = S \cup {n + 1} BY <1>9, <1>13, <2>1, <2>2
  <2>5. T \ {n + 1} = S BY <2>3, <2>4
  <2>6. IsFiniteSet(T) BY <1>10, <2>4, FS_AddElement
  <2>7. \A k \in T : g[k] \in Int BY <1>8, <2>2
  <2>8. PICK m : m = n + 1 OBVIOUS
  <2>9. m \in T /\ T \ {m} = S /\ g[m] = e.amount BY <1>8, <2>1, <2>5, <2>8
  <2>10. \A y \in T : Total(g, T) = g[y] + Total(g, T \ {y}) BY <2>6, <2>7, TotalTake
  <2>11. Total(g, T) = g[m] + Total(g, T \ {m}) BY <2>9, <2>10
  <2>12. Total(g, T) = e.amount + Total(f, S) BY <1>12, <2>9, <2>11
  <2>. QED BY <1>11, <2>12
<1>15. ASSUME ~e.success
       PROVE  Total(g, T) = Total(f, S)
  <2>1. n + 1 \notin T BY <1>2, <1>7, <1>15 DEF SucceededIn
  <2>2. \A k \in T : k \in 1..n BY <1>4, <1>7, <2>1 DEF SucceededIn
  <2>3. T = S BY <1>9, <1>13, <2>2
  <2>. QED BY <1>12, <2>3
<1>. QED BY <1>3, <1>5, <1>6, <1>7, <1>11, <1>14, <1>15

LEMMA TransfersStep ==
    ASSUME TransfersInv, TransferNext
    PROVE  TransfersInv'
<1>0. DOMAIN transfers = TransferFields BY DEF TransfersInv
<1>1. ASSUME NEW s, transfers' = [transfers EXCEPT !.settlement = s]
      PROVE  TransfersInv'
  <2>1. /\ DOMAIN transfers' = TransferFields /\ transfers'.log = transfers.log
        /\ transfers'.successes = transfers.successes
        /\ transfers'.failures = transfers.failures /\ transfers'.volume = transfers.volume
    BY <1>0, <1>1 DEF TransferFields
  <2>. QED BY <2>1 DEF TransfersInv
<1>2. ASSUME NEW to, AdvanceSettlement(to)
      PROVE  TransfersInv'
  BY <1>1, <1>2 DEF AdvanceSettlement
<1>3. ASSUME NEW tx, NEW protocol, Settle(tx, protocol)
      PROVE  TransfersInv'
  BY <1>1, <1>3 DEF Settle
<1>4. \A tx \in SomeTransaction : tx.amount \in Nat
  BY PlatformAssumption DEF SomeTransaction, CBDCTransaction
<1>5. ASSUME NEW tx \in SomeTransaction, log_transaction_success(tx, "XFER")
      PROVE  TransfersInv'
  <2>1. PICK v \in Nat : v = tx.amount BY <1>4
  <2>2. PICK e : e = [type |-> "XFER", amount |-> v, success |-> TRUE] OBVIOUS
  <2>3. e.amount = v /\ e.amount \in Nat BY <2>1, <2>2
  <2>4. e.success BY <2>2
  <2>5. PICK log : log = transfers.log OBVIOUS
  <2>6. PICK new : new = Append(log, e) OBVIOUS
  <2>7. /\ Len(log) < MaxCbdcLog /\ DOMAIN transfers' = TransferFields
        /\ transfers'.log = new /\ transfers'.successes = transfers.successes + 1
        /\ transfers'.failures = transfers.failures
        /\ transfers'.volume = transfers.volume + v
    BY <1>0, <1>5, <2>1, <2>2, <2>5, <2>6 DEF log_transaction_success, TransferFields
  <2>8. LogKept(log) BY <2>5 DEF TransfersInv
  <2>9. /\ LogKept(new) /\ Len(new) = Len(log) + 1
        /\ Total(AmountsIn(new), SucceededIn(new))
             = Total(AmountsIn(log), SucceededIn(log)) + e.amount
    BY <2>3, <2>4, <2>6, <2>8, LogGrows
  <2>10. PICK a \in Nat, b \in Nat : a = transfers.successes /\ b = transfers.failures
    BY DEF TransfersInv
  <2>11. Len(log) = a + b /\ MaxCbdcLog \in Nat
    BY <2>5, <2>10, CbdcAssumption DEF TransfersInv
  <2>12. /\ transfers'.successes \in Nat /\ transfers'.failures \in Nat
         /\ Len(new) = transfers'.successes + transfers'.failures /\ Len(new) <= MaxCbdcLog
    BY <2>7, <2>9, <2>10, <2>11, SMTT(30)
  <2>13. transfers'.volume = Total(AmountsIn(new), SucceededIn(new))
    BY <2>3, <2>5, <2>7, <2>9 DEF TransfersInv
  <2>. QED BY <2>7, <2>9, <2>12, <2>13 DEF TransfersInv
<1>6. ASSUME NEW tx \in SomeTransaction, log_transaction_failed(tx, "XFER")
      PROVE  TransfersInv'
  <2>1. PICK v \in Nat : v = tx.amount BY <1>4
  <2>2. PICK e : e = [type |-> "XFER", amount |-> v, success |-> FALSE] OBVIOUS
  <2>3. e.amount \in Nat BY <2>1, <2>2
  <2>4. ~e.success BY <2>2
  <2>5. PICK log : log = transfers.log OBVIOUS
  <2>6. PICK new : new = Append(log, e) OBVIOUS
  <2>7. /\ Len(log) < MaxCbdcLog /\ DOMAIN transfers' = TransferFields
        /\ transfers'.log = new /\ transfers'.successes = transfers.successes
        /\ transfers'.failures = transfers.failures + 1
        /\ transfers'.volume = transfers.volume
    BY <1>0, <1>6, <2>1, <2>2, <2>5, <2>6 DEF log_transaction_failed, TransferFields
  <2>8. LogKept(log) BY <2>5 DEF TransfersInv
  <2>9. /\ LogKept(new) /\ Len(new) = Len(log) + 1
        /\ Total(AmountsIn(new), SucceededIn(new)) = Total(AmountsIn(log), SucceededIn(log))
    BY <2>3, <2>4, <2>6, <2>8, LogGrows
  <2>10. PICK a \in Nat, b \in Nat : a = transfers.successes /\ b = transfers.failures
    BY DEF TransfersInv
  <2>11. Len(log) = a + b /\ MaxCbdcLog \in Nat
    BY <2>5, <2>10, CbdcAssumption DEF TransfersInv
  <2>12. /\ transfers'.successes \in Nat /\ transfers'.failures \in Nat
         /\ Len(new) = transfers'.successes + transfers'.failures /\ Len(new) <= MaxCbdcLog
    BY <2>7, <2>9, <2>10, <2>11, SMTT(30)
  <2>13. transfers'.volume = Total(AmountsIn(new), SucceededIn(new))
    BY <2>5, <2>7, <2>9 DEF TransfersInv
  <2>. QED BY <2>7, <2>9, <2>12, <2>13 DEF TransfersInv
<1>. QED BY <1>2, <1>3, <1>5, <1>6 DEF TransferNext

(* Only a public transaction is kept in the clear.                           *)
MaskingFields == {"masked", "acl", "tiers"}
MaskingInv ==
    /\ DOMAIN masking = MaskingFields
    /\ \A m \in masking.masked : m.encrypted = None <=> m.tier = "Public"

LEMMA MaskingStep ==
    ASSUME MaskingInv, MaskingNext
    PROVE  MaskingInv'
<1>1. ASSUME NEW tx, NEW tier, NEW read, NEW audit, NEW regulatory, NEW seconds,
             Mask(tx, tier, read, audit, regulatory, seconds)
      PROVE  MaskingInv'
  <2>1. PICK c, x : /\ c = compute_transaction_content_hash(tx)
                    /\ x = encrypt_transaction_data(tx, tier)
    OBVIOUS
  <2>2. PICK y : y = IF requires_encryption(tier) THEN Some(x) ELSE None OBVIOUS
  <2>3. PICK m : m = [content |-> c, tier |-> tier, encrypted |-> y] OBVIOUS
  <2>4. mask_transaction(tx, tier) = m BY <2>1, <2>2, <2>3 DEF mask_transaction
  <2>5. m.tier = tier /\ m.encrypted = y BY <2>3
  <2>6. y = None <=> tier = "Public" BY <2>2 DEF requires_encryption, Some, None
  <2>7. DOMAIN masking = MaskingFields BY DEF MaskingInv
  <2>8. PICK a, t : masking' = [masking EXCEPT !.masked = Some(m), !.tiers = t, !.acl = a]
    BY <1>1, <2>4 DEF Mask
  <2>9. DOMAIN masking' = MaskingFields /\ masking'.masked = {m}
    BY <2>7, <2>8 DEF MaskingFields, Some
  <2>. QED BY <2>5, <2>6, <2>9 DEF MaskingInv
<1>. QED BY <1>1 DEF MaskingNext

LEMMA CbdcInvSound ==
    ASSUME MoneyInv, TransfersInv, MaskingInv
    PROVE  CbdcSound
<1>0. /\ OfflineInv /\ \A k \in DOMAIN cbdc.offline : OfflineSound(cbdc.offline[k])
      /\ NoncesRise(cbdc.offline) /\ QueueKept(cbdc.queue, cbdc.offline)
  BY DEF MoneyInv
<1>1. ASSUME NEW j \in DOMAIN cbdc.offline, NEW k \in DOMAIN cbdc.offline, j < k
      PROVE  /\ cbdc.offline[j].nonce < cbdc.offline[k].nonce
             /\ cbdc.offline[j].hash # cbdc.offline[k].hash
  <2>1. cbdc.offline[j].nonce < cbdc.offline[k].nonce BY <1>0, <1>1 DEF NoncesRise
  <2>2. PICK o, p : o = cbdc.offline[j] /\ p = cbdc.offline[k] OBVIOUS
  <2>3. OfflineSound(o) /\ OfflineSound(p) BY <1>0, <2>2
  <2>4. ASSUME o.hash = p.hash PROVE FALSE
    <3>1. PICK t, u, m, n : t = o.tx /\ u = p.tx /\ m = o.nonce /\ n = p.nonce OBVIOUS
    <3>2. compute_offline_tx_hash(t, m) = compute_offline_tx_hash(u, n)
      BY <2>3, <2>4, <3>1 DEF OfflineSound
    <3>3. m = n BY <3>2, NonceInHash
    <3>4. m < n /\ m \in Nat BY <2>1, <2>2, <2>3, <3>1 DEF OfflineSound
    <3>. QED BY <3>3, <3>4
  <2>. QED BY <2>1, <2>2, <2>4
<1>2. \A k \in DOMAIN cbdc.offline : verify_transaction_integrity(cbdc.offline[k])
  BY <1>0 DEF OfflineSound, verify_transaction_integrity
<1>3. Len(cbdc.queue) <= QueueSize /\ IsInjective(cbdc.queue) BY <1>0 DEF QueueKept
<1>4. ASSUME NEW k \in DOMAIN cbdc.offline
      PROVE  LET tx == cbdc.offline[k].tx
             IN  /\ tx.amount_dest * RateScale <= tx.amount * tx.rate
                 /\ \A paid \in compute_final_amount(<<0, 1>>, <<tx.rate, tx.rate>>, tx.amount) :
                       paid * RateScale * RateScale <= tx.amount * tx.rate * tx.rate
  <2>1. PICK tx : tx = cbdc.offline[k].tx OBVIOUS
  <2>2. PICK a \in Nat, r \in Nat : /\ a = tx.amount /\ r = tx.rate
                                    /\ tx.amount_dest = (a * r) \div RateScale
    BY <1>0, <2>1 DEF OfflineSound
  <2>3. tx.amount_dest * RateScale <= a * r
    <3>1. PICK m \in Nat : m = a * r OBVIOUS
    <3>2. RateScale \in Nat \ {0} BY CbdcAssumption
    <3>3. (m \div RateScale) * RateScale <= m BY <3>1, <3>2, DivisionBelow
    <3>. QED BY <2>2, <3>1, <3>3
  <2>4. \A paid \in compute_final_amount(<<0, 1>>, <<r, r>>, a) :
           paid * RateScale * RateScale <= a * r * r
    BY PathPays
  <2>. QED BY <2>1, <2>2, <2>3, <2>4
<1>5. LET state == compute_reconciliation_state(
                       [k \in DOMAIN cbdc.offline |-> cbdc.offline[k].status])
      IN  state.successful + state.failed + state.pending + state.disputed = state.total
  BY <1>0, OutcomesAddUp
<1>6. success_rate = 100 <=> transfers.failures = 0
  <2>1. PICK s \in Nat, f \in Nat : s = transfers.successes /\ f = transfers.failures
    BY DEF TransfersInv
  <2>2. success_rate = IF s + f = 0 THEN 100 ELSE (s * 100) \div (s + f)
    BY <2>1 DEF success_rate
  <2>3. CASE s + f = 0 BY <2>1, <2>2, <2>3
  <2>4. CASE s + f # 0
    <3>1. PICK n \in Nat \ {0} : n = s + f BY <2>4
    <3>2. f = 0 => (s * 100) \div n = 100 BY <3>1
    <3>3. ASSUME (s * 100) \div n = 100
          PROVE  f = 0
      <4>1. PICK m \in Nat : m = s * 100 OBVIOUS
      <4>2. (m \div n) * n <= m BY <3>1, <4>1, DivisionBelow
      <4>3. 100 * n <= s * 100 BY <3>3, <4>1, <4>2
      <4>. QED BY <3>1, <4>3
    <3>. QED BY <2>1, <2>2, <2>4, <3>1, <3>2, <3>3
  <2>. QED BY <2>3, <2>4
<1>7. /\ Len(transfers.log) = transfers.successes + transfers.failures
      /\ Len(transfers.log) <= MaxCbdcLog
      /\ transfers.volume = Total([k \in DOMAIN transfers.log |-> transfers.log[k].amount],
                                  {k \in DOMAIN transfers.log : transfers.log[k].success})
  BY DEF TransfersInv, AmountsIn, SucceededIn
<1>8. \A acl \in masking.acl, who \in Account :
         can_access(acl, who) <=> check_access_permission(acl, who) # "None"
  BY DEF can_access, check_access_permission
<1>9. \A masked \in masking.masked : masked.encrypted = None <=> masked.tier = "Public"
  BY DEF MaskingInv
<1>. QED BY <1>1, <1>2, <1>3, <1>4, <1>5, <1>6, <1>7, <1>8, <1>9 DEF CbdcSound

LEMMA CbdcBegins ==
    ASSUME CbdcInit, TransferInit, MaskingInit
    PROVE  MoneyInv /\ TransfersInv /\ MaskingInv
<1>1. IsList(<<>>) /\ Len(<<>>) = 0 /\ DOMAIN <<>> = {} BY EmptyList
<1>2. /\ DOMAIN cbdc = CbdcFields /\ cbdc.offline = <<>> /\ cbdc.queue = <<>>
  BY DEF CbdcInit, CbdcFields
<1>3. 0 <= QueueSize /\ 0 <= MaxCbdcLog BY CbdcAssumption
<1>4. MoneyInv
  <2>1. OfflineInv BY <1>1, <1>2 DEF OfflineInv
  <2>2. QueueKept(<<>>, <<>>) BY <1>1, <1>3 DEF QueueKept, IsInjective
  <2>. QED BY <1>1, <1>2, <2>1, <2>2 DEF MoneyInv, NoncesRise
<1>5. /\ DOMAIN transfers = TransferFields /\ transfers.log = <<>>
      /\ transfers.successes = 0 /\ transfers.failures = 0 /\ transfers.volume = 0
  BY DEF TransferInit, TransferFields
<1>6. TransfersInv
  <2>1. LogKept(<<>>) BY <1>1 DEF LogKept
  <2>2. SucceededIn(<<>>) = {} BY <1>1 DEF SucceededIn
  <2>3. PICK f : f = AmountsIn(<<>>) OBVIOUS
  <2>4. IsFiniteSet({}) BY FS_EmptySet
  <2>5. Total(f, {}) = 0 BY <2>4, TotalNext
  <2>6. Total(AmountsIn(<<>>), SucceededIn(<<>>)) = 0 BY <2>2, <2>3, <2>5
  <2>. QED BY <1>1, <1>3, <1>5, <2>1, <2>6 DEF TransfersInv
<1>7. MaskingInv BY DEF MaskingInit, MaskingInv, MaskingFields, None
<1>. QED BY <1>4, <1>6, <1>7

-----------------------------------------------------------------------------
(* Supervised finance as a whole.                                            *)

(* Time that passes between calls leaves the times a part has noted behind.  *)
LEMMA FeedsAge ==
    ASSUME FeedsInv, feeds' = feeds, clock \in Nat, clock' \in Nat, clock <= clock'
    PROVE  FeedsInv'
<1>1. PICK points : points = feeds.points OBVIOUS
<1>2. \A k \in DOMAIN points : points[k].time \in Nat /\ points[k].time <= clock'
  <2>. SUFFICES ASSUME NEW k \in DOMAIN points
                PROVE  points[k].time \in Nat /\ points[k].time <= clock'
    OBVIOUS
  <2>1. PICK t : t = points[k].time OBVIOUS
  <2>2. t \in Nat /\ t <= clock BY <1>1, <2>1 DEF FeedsInv, PointsOrdered
  <2>3. t <= clock' BY <2>2
  <2>. QED BY <2>1, <2>2, <2>3
<1>3. PointsOrdered(points)' BY <1>1, <1>2 DEF FeedsInv, PointsOrdered
<1>. QED BY <1>1, <1>3 DEF FeedsInv

LEMMA SandboxAges ==
    ASSUME SandboxInv, sandbox' = sandbox, clock \in Nat, clock' \in Nat, clock <= clock'
    PROVE  SandboxInv'
<1>1. ASSUME NEW p, ParticipantKept(p)
      PROVE  ParticipantKept(p)'
  <2>1. p.entry \in Nat /\ p.entry <= clock BY <1>1 DEF ParticipantKept
  <2>2. PICK e : e = p.entry OBVIOUS
  <2>3. e <= clock' BY <2>1, <2>2
  <2>. QED BY <1>1, <2>2, <2>3 DEF ParticipantKept, StayBounded, Allowed
<1>2. ASSUME NEW id \in DOMAIN sandbox.participants
      PROVE  /\ ParticipantKept(sandbox.participants[id])'
             /\ Admitted(sandbox.participants[id], sandbox.applications)'
  <2>1. PICK p : p = sandbox.participants[id] OBVIOUS
  <2>2. ParticipantKept(p) /\ Admitted(p, sandbox.applications)
    BY <2>1 DEF SandboxInv
  <2>3. ParticipantKept(p)' BY <1>1, <2>2
  <2>. QED BY <2>1, <2>2, <2>3 DEF Admitted
<1>. QED BY <1>2 DEF SandboxInv, CasesKept, CasesCounted

(* In every behaviour of the platform supervised finance stays sound: no     *)
(* offline transfer is paid twice or changed after it was handed in and the  *)
(* settlement log adds up, no sandbox participant exceeds its limits or      *)
(* graduates below the criteria, and no alert, report or acknowledgement is  *)
(* counted twice or delivered below its threshold.                           *)
THEOREM SupervisedFinanceStaysSound == PlatformSpec => []SupervisedFinanceSound
<1>. DEFINE Inv == /\ clock \in Nat
                   /\ MoneyInv /\ TransfersInv /\ MaskingInv
                   /\ SandboxInv /\ TrialInv /\ GraduationInv
                   /\ FeedsInv /\ SupervisionInv /\ FilingInv /\ WireInv
<1>1. PlatformInit => Inv
  BY CbdcBegins, SandboxBegins, SupervisionBegins DEF PlatformInit
<1>2. Inv /\ [PlatformNext]_platformVars => Inv'
  <2>. SUFFICES ASSUME Inv, [PlatformNext]_platformVars PROVE Inv' OBVIOUS
  <2>1. /\ cbdc' = cbdc \/ CbdcNext
        /\ transfers' = transfers \/ TransferNext
        /\ masking' = masking \/ MaskingNext
        /\ sandbox' = sandbox \/ (SandboxNext /\ clock' = clock)
        /\ trial' = trial \/ TrialNext
        /\ graduation' = graduation \/ GraduationNext
        /\ feeds' = feeds \/ (FeedsNext /\ clock' = clock)
        /\ supervision' = supervision \/ SupervisionNext
        /\ filing' = filing \/ FilingNext
        /\ wire' = wire \/ WireNext
        /\ clock' \in Nat /\ clock <= clock'
    BY FinanceSteps
  <2>2. MoneyInv'
    <3>1. CASE cbdc' = cbdc
      BY <3>1 DEF MoneyInv, OfflineInv, OfflineSound, NoncesRise, QueueKept
    <3>. QED BY <2>1, <3>1, MoneyStep
  <2>3. TransfersInv'
    <3>1. CASE transfers' = transfers BY <3>1 DEF TransfersInv
    <3>. QED BY <2>1, <3>1, TransfersStep
  <2>4. MaskingInv'
    <3>1. CASE masking' = masking BY <3>1 DEF MaskingInv
    <3>. QED BY <2>1, <3>1, MaskingStep
  <2>5. SandboxInv' BY <2>1, SandboxStep, SandboxAges
  <2>6. TrialInv'
    <3>1. CASE trial' = trial BY <3>1 DEF TrialInv
    <3>. QED BY <2>1, <3>1, TrialStep
  <2>7. GraduationInv'
    <3>1. CASE graduation' = graduation BY <3>1 DEF GraduationInv
    <3>. QED BY <2>1, <3>1, GraduationStep
  <2>8. FeedsInv' BY <2>1, FeedsStep, FeedsAge
  <2>9. SupervisionInv'
    <3>1. CASE supervision' = supervision BY <3>1 DEF SupervisionInv
    <3>. QED BY <2>1, <3>1, SupervisionStep
  <2>10. FilingInv'
    <3>1. CASE filing' = filing BY <3>1 DEF FilingInv
    <3>. QED BY <2>1, <3>1, FilingStep
  <2>11. WireInv'
    <3>1. CASE wire' = wire BY <3>1 DEF WireInv
    <3>. QED BY <2>1, <3>1, WireStep
  <2>. QED BY <2>1, <2>2, <2>3, <2>4, <2>5, <2>6, <2>7, <2>8, <2>9, <2>10, <2>11
<1>3. Inv => SupervisedFinanceSound
  BY CbdcInvSound, SandboxInvContains, SupervisionInvSound DEF SupervisedFinanceSound
<1>. QED BY <1>1, <1>2, <1>3, PTL DEF PlatformSpec

-----------------------------------------------------------------------------
(* Collective money.                                                         *)

(* A step of the platform touches the records of a part only by a call of    *)
(* that part, and the clock does not go back.                                *)
LEMMA CollectiveSteps ==
    ASSUME [PlatformNext]_platformVars
    PROVE  /\ dao' = dao \/ (DaoNext /\ clock' = clock)
           /\ treasury' = treasury \/ TreasuryNext
           /\ jury' = jury \/ (JuryNext /\ clock' = clock)
           /\ reserve' = reserve \/ ReserveNext
           /\ clock \in Nat => clock' \in Nat /\ clock <= clock'
<1>1. CASE UNCHANGED platformVars BY <1>1 DEF platformVars, records
<1>2. CASE Tick BY <1>2 DEF Tick, records
<1>3. ASSUME NEW part \in Part, Call(part)
      PROVE  /\ dao' = dao \/ DaoNext
             /\ treasury' = treasury \/ TreasuryNext
             /\ jury' = jury \/ JuryNext
             /\ reserve' = reserve \/ ReserveNext
             /\ clock' = clock
  <2>1. PartNext(part) /\ OthersKept(part) /\ UNCHANGED clock BY <1>3 DEF Call
  <2>. QED BY <2>1 DEF PartNext, OthersKept
<1>. QED BY <1>1, <1>2, <1>3 DEF PlatformNext

(* A sum in which one value is new or changed.                               *)
LEMMA TotalWritten ==
    ASSUME NEW f, NEW g, NEW S, IsFiniteSet(S), NEW y, NEW T, T = S \cup {y},
           \A x \in S : f[x] \in Int, \A x \in S : x # y => g[x] = f[x], g[y] \in Int
    PROVE  /\ IsFiniteSet(T)
           /\ Total(f, S) \in Int /\ Total(g, T) \in Int
           /\ y \notin S => Total(g, T) = Total(f, S) + g[y]
           /\ y \in S => Total(g, T) = Total(f, S) - f[y] + g[y]
<1>1. IsFiniteSet(T) BY FS_AddElement
<1>2. PICK R : R = T \ {y} OBVIOUS
<1>3. R \subseteq S /\ R = S \ {y} /\ IsFiniteSet(R) BY <1>2, FS_Subset
<1>4. \A x \in T : g[x] \in Int BY <1>2
<1>5. Total(g, T) = g[y] + Total(g, R) BY <1>1, <1>2, <1>4, TotalTake
<1>6. Total(g, R) = Total(f, R)
  <2>1. \A x \in R : g[x] = f[x] BY <1>3
  <2>. QED BY <1>3, <2>1, TotalSame
<1>7. Total(f, S) \in Int /\ Total(f, R) \in Int
  <2>1. \A x \in R : f[x] \in Int BY <1>3
  <2>. QED BY <1>3, <2>1, TotalType
<1>8. Total(g, T) = g[y] + Total(f, R) BY <1>5, <1>6
<1>9. y \notin S => R = S BY <1>3
<1>10. y \in S => Total(f, S) = f[y] + Total(f, R) BY <1>3, TotalTake
<1>11. y \in S => f[y] \in Int OBVIOUS
<1>. QED BY <1>1, <1>7, <1>8, <1>9, <1>10, <1>11

-----------------------------------------------------------------------------
(* Collective money: reserves.                                               *)

ReserveFields ==
    {"assets", "listed", "total", "attestations", "attested", "reports", "redemptions",
     "requested", "tests", "proofs"}

Quantities(assets) == [id \in DOMAIN assets |-> assets[id].quantity]

AssetsKept(assets) ==
    /\ IsFiniteSet(DOMAIN assets)
    /\ \A id \in DOMAIN assets :
          DOMAIN assets[id] = {"quantity"} /\ assets[id].quantity \in Nat

AssetsListed(listed, assets) ==
    /\ IsList(listed)
    /\ ToSet(listed) = DOMAIN assets
    /\ Len(listed) = Cardinality(DOMAIN assets)

(* What was attested or is to be redeemed is about an asset there is.        *)
RequestsKept(redemptions, assets) ==
    \A r \in DOMAIN redemptions :
        /\ DOMAIN redemptions[r] = {"quantity", "asset", "status"}
        /\ redemptions[r].quantity \in Nat
        /\ redemptions[r].asset \in DOMAIN assets

ReserveInv ==
    /\ DOMAIN reserve = ReserveFields
    /\ AssetsKept(reserve.assets)
    /\ AssetsListed(reserve.listed, reserve.assets)
    /\ reserve.total \in Nat
    /\ reserve.total <= Total(Quantities(reserve.assets), DOMAIN reserve.assets)
    /\ \A id \in DOMAIN reserve.attestations :
          reserve.attestations[id].asset \in DOMAIN reserve.assets
    /\ RequestsKept(reserve.redemptions, reserve.assets)

(* A record of the quantity q, and a map of assets in which it is written.   *)
Holding(r, q) == DOMAIN r = {"quantity"} /\ r.quantity = q
Written(new, assets, id, q) ==
    /\ AssetsKept(new) /\ DOMAIN new = DOMAIN assets \cup {id}
    /\ Total(Quantities(assets), DOMAIN assets) \in Nat
    /\ Total(Quantities(new), DOMAIN new) \in Nat
    /\ id \notin DOMAIN assets =>
         Total(Quantities(new), DOMAIN new) = Total(Quantities(assets), DOMAIN assets) + q
    /\ id \in DOMAIN assets =>
         Total(Quantities(new), DOMAIN new)
            = Total(Quantities(assets), DOMAIN assets) - assets[id].quantity + q

(* One quantity written: the sum moves by the difference.                    *)
LEMMA QuantityWritten ==
    ASSUME NEW assets, AssetsKept(assets), NEW id, NEW q \in Nat, NEW r, Holding(r, q)
    PROVE  Written(Put(assets, id, r), assets, id, q)
<1>1. PICK new : new = Put(assets, id, r) OBVIOUS
<1>2. DOMAIN r = {"quantity"} /\ r.quantity = q BY DEF Holding
<1>3. /\ DOMAIN new = DOMAIN assets \cup {id} /\ new[id] = r
      /\ \A x \in DOMAIN assets : x # id => new[x] = assets[x]
  BY <1>1 DEF Put
<1>4. PICK S, T : S = DOMAIN assets /\ T = DOMAIN new OBVIOUS
<1>5. PICK f, g : f = Quantities(assets) /\ g = Quantities(new) OBVIOUS
<1>6. IsFiniteSet(S) /\ \A x \in S : f[x] = assets[x].quantity /\ f[x] \in Nat
  BY <1>4, <1>5 DEF AssetsKept, Quantities
<1>7. IsFiniteSet(T) BY <1>3, <1>4, <1>6, FS_AddElement
<1>8. \A x \in T : DOMAIN new[x] = {"quantity"} /\ new[x].quantity \in Nat
  BY <1>2, <1>3, <1>4 DEF AssetsKept
<1>9. \A x \in T : g[x] = new[x].quantity BY <1>4, <1>5 DEF Quantities
<1>10. g[id] = q /\ \A x \in S : x # id => g[x] = f[x]
  BY <1>2, <1>3, <1>4, <1>6, <1>9
<1>11. Total(f, S) \in Nat /\ Total(g, T) \in Nat
  <2>1. \A x \in T : g[x] \in Nat BY <1>8, <1>9
  <2>. QED BY <1>6, <1>7, <2>1, TotalType
<1>12. /\ id \notin S => Total(g, T) = Total(f, S) + g[id]
       /\ id \in S => Total(g, T) = Total(f, S) - f[id] + g[id]
  <2>1. \A x \in S : f[x] \in Int BY <1>6
  <2>2. T = S \cup {id} BY <1>3, <1>4
  <2>3. g[id] \in Int BY <1>10
  <2>4. \A x \in S : x # id => g[x] = f[x] BY <1>10
  <2>5. IsFiniteSet(S) BY <1>6
  <2>. QED BY ONLY <2>1, <2>2, <2>3, <2>4, <2>5, TotalWritten
<1>13. AssetsKept(new) BY <1>4, <1>7, <1>8 DEF AssetsKept
<1>14. Written(new, assets, id, q)
  BY <1>3, <1>4, <1>5, <1>6, <1>10, <1>11, <1>12, <1>13 DEF Written
<1>. QED BY <1>1, <1>14

(* Subtracting never makes a sum overstated.                                 *)
LEMMA SubtractedBelow ==
    ASSUME NEW t \in Nat, NEW s \in Nat, NEW u \in Nat, NEW d \in Nat, t <= s, s - d <= u
    PROVE  Less(t, d) \in Nat /\ Less(t, d) <= u
BY DEF Less

LEMMA ReserveStep ==
    ASSUME ReserveInv, ReserveNext
    PROVE  ReserveInv'
<1>0. /\ DOMAIN reserve = ReserveFields /\ AssetsKept(reserve.assets)
      /\ AssetsListed(reserve.listed, reserve.assets) /\ reserve.total \in Nat
      /\ reserve.total <= Total(Quantities(reserve.assets), DOMAIN reserve.assets)
      /\ RequestsKept(reserve.redemptions, reserve.assets)
      /\ \A id \in DOMAIN reserve.attestations :
            reserve.attestations[id].asset \in DOMAIN reserve.assets
  BY DEF ReserveInv
<1>1. PICK assets, listed, sum :
        /\ assets = reserve.assets /\ listed = reserve.listed
        /\ sum = Total(Quantities(assets), DOMAIN assets)
  OBVIOUS
<1>2. sum \in Nat
  <2>1. \A x \in DOMAIN assets : Quantities(assets)[x] \in Nat
    BY <1>0, <1>1 DEF AssetsKept, Quantities
  <2>2. IsFiniteSet(DOMAIN assets) BY <1>0, <1>1 DEF AssetsKept
  <2>. QED BY <1>1, <2>1, <2>2, TotalType
(* The assets, their list and their total stay.                              *)
<1>3. ASSUME DOMAIN reserve' = ReserveFields, reserve'.assets = reserve.assets,
             reserve'.listed = reserve.listed, reserve'.total = reserve.total,
             RequestsKept(reserve'.redemptions, reserve.assets),
             \A id \in DOMAIN reserve'.attestations :
                reserve'.attestations[id].asset \in DOMAIN reserve.assets
      PROVE  ReserveInv'
  BY <1>0, <1>3 DEF ReserveInv
(* One quantity is rewritten and the difference subtracted.                  *)
<1>4. ASSUME NEW id \in DOMAIN assets, NEW q \in Nat, NEW d \in Nat,
             assets[id].quantity - q <= d,
             NEW r, r = [quantity |-> q], NEW new, new = Put(assets, id, r),
             DOMAIN reserve' = ReserveFields, reserve'.assets = new,
             reserve'.listed = reserve.listed, reserve'.total = Less(reserve.total, d),
             RequestsKept(reserve'.redemptions, assets),
             reserve'.attestations = reserve.attestations
      PROVE  ReserveInv'
  <2>1. PICK after : after = Total(Quantities(new), DOMAIN new) OBVIOUS
  <2>2. PICK old \in Nat : old = assets[id].quantity BY <1>0, <1>1 DEF AssetsKept
  <2>3. /\ AssetsKept(new) /\ DOMAIN new = DOMAIN assets /\ after \in Nat
        /\ after = sum - old + q
    <3>1. AssetsKept(assets) /\ id \in DOMAIN assets BY <1>0, <1>1
    <3>2. Holding(r, q) BY <1>4 DEF Holding
    <3>3. Written(new, assets, id, q) BY <1>4, <3>1, <3>2, QuantityWritten
    <3>. QED BY <1>1, <2>1, <2>2, <3>1, <3>3 DEF Written
  <2>4. sum - d <= after BY <1>2, <1>4, <2>2, <2>3
  <2>5. Less(reserve.total, d) \in Nat /\ Less(reserve.total, d) <= after
    BY <1>0, <1>1, <1>2, <1>4, <2>3, <2>4, SubtractedBelow
  <2>6. AssetsListed(listed, new) BY <1>0, <1>1, <2>3 DEF AssetsListed
  <2>7. RequestsKept(reserve'.redemptions, new) BY <1>4, <2>3 DEF RequestsKept
  <2>. QED BY <1>0, <1>1, <1>4, <2>1, <2>3, <2>5, <2>6, <2>7 DEF ReserveInv
<1>5. ASSUME NEW kind \in AssetType, NEW x \in Amount, NEW a, register_reserve(kind, x, a)
      PROVE  ReserveInv'
  <2>1. kind \notin DOMAIN assets /\ x \in Nat
    BY <1>1, <1>5, PlatformAssumption DEF register_reserve, compute_asset_id
  <2>2. PICK r, new, more : /\ r = [quantity |-> x] /\ new = Put(assets, kind, r)
                            /\ more = Append(listed, kind)
    OBVIOUS
  <2>3. /\ DOMAIN reserve' = ReserveFields /\ reserve'.assets = new /\ reserve'.listed = more
        /\ reserve'.total = reserve.total + x
        /\ reserve'.attestations = reserve.attestations
        /\ reserve'.redemptions = reserve.redemptions
    BY <1>0, <1>1, <1>5, <2>2 DEF register_reserve, compute_asset_id, ReserveFields
  <2>4. /\ AssetsKept(new) /\ DOMAIN new = DOMAIN assets \cup {kind}
        /\ Total(Quantities(new), DOMAIN new) = sum + x
    <3>1. AssetsKept(assets) /\ kind \notin DOMAIN assets /\ x \in Nat BY <1>0, <1>1, <2>1
    <3>2. Holding(r, x) BY <2>2 DEF Holding
    <3>3. Written(new, assets, kind, x) BY <2>2, <3>1, <3>2, QuantityWritten
    <3>. QED BY <1>1, <3>1, <3>3 DEF Written
  <2>5. AssetsListed(more, new)
    <3>1. PICK n \in Nat : n = Len(listed) /\ DOMAIN listed = 1..n
      BY <1>0, <1>1, ListFacts DEF AssetsListed
    <3>2. /\ IsList(more) /\ DOMAIN more = 1..(n + 1) /\ more[n + 1] = kind
          /\ \A k \in 1..n : more[k] = listed[k]
      BY <1>0, <1>1, <2>2, <3>1, ListFacts DEF AssetsListed
    <3>3. Len(more) = n + 1 BY <1>0, <1>1, <2>2, <3>1, LengthGrows DEF AssetsListed
    <3>4. ToSet(more) = ToSet(listed) \cup {kind}
      <4>1. \A k : k \in 1..(n + 1) <=> k \in 1..n \/ k = n + 1 BY <3>1
      <4>. QED BY <3>1, <3>2, <4>1 DEF ToSet
    <3>5. Cardinality(DOMAIN new) = Cardinality(DOMAIN assets) + 1
      BY <1>0, <1>1, <2>1, <2>4, FS_AddElement DEF AssetsKept
    <3>. QED BY <1>0, <1>1, <2>4, <3>1, <3>2, <3>3, <3>4, <3>5 DEF AssetsListed
  <2>6. reserve.total + x \in Nat /\ reserve.total + x <= sum + x BY <1>0, <1>1, <1>2, <2>1
  <2>7. RequestsKept(reserve.redemptions, new) BY <1>0, <1>1, <2>4 DEF RequestsKept
  <2>. QED BY <1>0, <1>1, <2>3, <2>4, <2>5, <2>6, <2>7 DEF ReserveInv
<1>6. ASSUME NEW id, NEW x \in 0..MaxReserve, update_reserve(id, x)
      PROVE  ReserveInv'
  <2>1. id \in DOMAIN assets /\ x \in Nat BY <1>1, <1>6, ReserveAssumption DEF update_reserve
  <2>2. PICK old \in Nat : old = assets[id].quantity BY <1>0, <1>1, <2>1 DEF AssetsKept
  <2>3. PICK d : d = Less(x, old) + Less(old, x) OBVIOUS
  <2>4. d \in Nat /\ old - x <= d BY <2>1, <2>2, <2>3 DEF Less
  <2>5. PICK r : r = [quantity |-> x] OBVIOUS
  <2>6. [assets EXCEPT ![id] = r] = Put(assets, id, r)
    <3>1. DOMAIN assets \cup {id} = DOMAIN assets BY <2>1
    <3>2. Put(assets, id, r) = [y \in DOMAIN assets |-> IF y = id THEN r ELSE assets[y]]
      BY <3>1 DEF Put
    <3>. QED BY <2>1, <3>2
  <2>7. reserve' = [reserve EXCEPT !.assets = Put(assets, id, r), !.total = Less(reserve.total, d)]
    BY <1>0, <1>1, <1>6, <2>2, <2>3, <2>5, <2>6 DEF update_reserve, ReserveFields
  <2>8. PICK new : new = Put(assets, id, r) OBVIOUS
  <2>9. /\ DOMAIN reserve' = ReserveFields /\ reserve'.assets = new
        /\ reserve'.listed = reserve.listed /\ reserve'.total = Less(reserve.total, d)
        /\ reserve'.redemptions = reserve.redemptions
        /\ reserve'.attestations = reserve.attestations
    BY <1>0, <2>7, <2>8 DEF ReserveFields
  <2>. QED BY <1>0, <1>1, <1>4, <2>1, <2>2, <2>4, <2>5, <2>8, <2>9
<1>7. ASSUME NEW a, NEW k \in DOMAIN reserve.assets, record_attestation(a, k, 1, 2)
      PROVE  ReserveInv'
  <2>1. PICK r : r = [attestor |-> a, asset |-> k, quantity |-> 1, expires_at |-> 2] OBVIOUS
  <2>2. r.asset = k BY <2>1
  <2>3. PICK m : m = Put(reserve.attestations, k, r) OBVIOUS
  <2>4. /\ DOMAIN reserve' = ReserveFields /\ reserve'.assets = reserve.assets
        /\ reserve'.listed = reserve.listed /\ reserve'.total = reserve.total
        /\ reserve'.redemptions = reserve.redemptions /\ reserve'.attestations = m
    BY <1>0, <1>7, <2>1, <2>3 DEF record_attestation, compute_attestation_id, ReserveFields
  <2>5. \A id \in DOMAIN m : m[id].asset \in DOMAIN reserve.assets
    BY <1>0, <1>7, <2>2, <2>3 DEF Put
  <2>. QED BY <1>0, <1>3, <2>4, <2>5
<1>8. ASSUME \/ report_reserves(0, clock)
             \/ \E p \in {100, 101} : execute_stress_test(p)
             \/ \E n \in 0..1, e \in 1..2 : verify_zk_proof(n, "c", e)
      PROVE  ReserveInv'
  <2>1. /\ DOMAIN reserve' = ReserveFields /\ reserve'.assets = reserve.assets
        /\ reserve'.listed = reserve.listed /\ reserve'.total = reserve.total
        /\ reserve'.redemptions = reserve.redemptions
        /\ reserve'.attestations = reserve.attestations
    BY <1>0, <1>8 DEF report_reserves, execute_stress_test, verify_zk_proof, ReserveFields
  <2>. QED BY <1>0, <1>3, <2>1
<1>9. ASSUME NEW a, NEW x \in Amount, NEW k, request_redemption(a, x, k)
      PROVE  ReserveInv'
  <2>1. PICK r : r = [quantity |-> x, asset |-> k, status |-> "pending"] OBVIOUS
  <2>2. /\ DOMAIN r = {"quantity", "asset", "status"} /\ r.quantity \in Nat
        /\ r.asset = k /\ k \in DOMAIN reserve.assets
    BY <1>9, <2>1, PlatformAssumption DEF request_redemption
  <2>3. PICK m : m = Put(reserve.redemptions, clock, r) OBVIOUS
  <2>4. /\ DOMAIN reserve' = ReserveFields /\ reserve'.assets = reserve.assets
        /\ reserve'.listed = reserve.listed /\ reserve'.total = reserve.total
        /\ reserve'.redemptions = m /\ reserve'.attestations = reserve.attestations
    BY <1>0, <1>9, <2>1, <2>3 DEF request_redemption, compute_redemption_id, ReserveFields
  <2>5. RequestsKept(m, reserve.assets) BY <1>0, <2>2, <2>3 DEF RequestsKept, Put
  <2>. QED BY <1>0, <1>3, <2>4, <2>5
<1>10. ASSUME NEW r \in DOMAIN reserve.redemptions, execute_redemption(r)
       PROVE  ReserveInv'
  <2>1. PICK p, id, d : /\ p = reserve.redemptions[r]
                        /\ id = p.asset /\ d = p.quantity
    OBVIOUS
  <2>2. /\ DOMAIN p = {"quantity", "asset", "status"} /\ d \in Nat /\ id \in DOMAIN assets
    BY <1>0, <1>1, <2>1 DEF RequestsKept
  <2>3. PICK old \in Nat : old = assets[id].quantity BY <1>0, <1>1, <2>2 DEF AssetsKept
  <2>4. old >= d BY <1>1, <1>10, <2>1, <2>3 DEF execute_redemption
  <2>5. PICK q \in Nat : q = old - d BY <2>2, <2>3, <2>4
  <2>6. PICK v : v = [quantity |-> q] OBVIOUS
  <2>7. PICK s : s = [p EXCEPT !.status = "executed"] OBVIOUS
  <2>8. [assets[id] EXCEPT !.quantity = q] = v
    <3>1. PICK w : w = assets[id] OBVIOUS
    <3>2. DOMAIN w = {"quantity"} BY <1>0, <1>1, <2>2, <3>1 DEF AssetsKept
    <3>3. PICK u : u = [w EXCEPT !.quantity = q] OBVIOUS
    <3>4. DOMAIN u = {"quantity"} /\ u.quantity = q BY <3>2, <3>3
    <3>5. u = [z \in {"quantity"} |-> u[z]] BY <3>2, <3>3
    <3>6. u = v BY <2>6, <3>4, <3>5
    <3>. QED BY <3>1, <3>3, <3>6
  <2>9. PICK new, m : /\ new = [assets EXCEPT ![id] = v]
                      /\ m = [reserve.redemptions EXCEPT ![r] = s]
    OBVIOUS
  <2>10. /\ DOMAIN reserve' = ReserveFields /\ reserve'.assets = new
         /\ reserve'.listed = reserve.listed /\ reserve'.total = Less(reserve.total, d)
         /\ reserve'.redemptions = m /\ reserve'.attestations = reserve.attestations
    BY <1>0, <1>1, <1>10, <2>1, <2>3, <2>5, <2>7, <2>8, <2>9
       DEF execute_redemption, ReserveFields
  <2>11. new = Put(assets, id, v)
    <3>1. DOMAIN assets \cup {id} = DOMAIN assets BY <2>2
    <3>2. Put(assets, id, v) = [y \in DOMAIN assets |-> IF y = id THEN v ELSE assets[y]]
      BY <3>1 DEF Put
    <3>. QED BY <2>2, <2>9, <3>2
  <2>12. DOMAIN s = {"quantity", "asset", "status"} /\ s.quantity = d /\ s.asset = id
    BY <2>1, <2>2, <2>7
  <2>13. RequestsKept(m, assets) BY <1>0, <1>1, <2>2, <2>9, <2>12 DEF RequestsKept
  <2>14. old - q <= d BY <2>2, <2>3, <2>5
  <2>. QED BY <1>4, <2>2, <2>3, <2>6, <2>10, <2>11, <2>13, <2>14
<1>. QED BY <1>5, <1>6, <1>7, <1>8, <1>9, <1>10 DEF ReserveNext

(* In every behaviour of the platform the reserve reported to holders is at  *)
(* most what the assets hold, in whatever order assets are registered,       *)
(* corrected and redeemed, and every asset counted is listed once            *)
(* (stablecoin_reserves_impl.rs).                                            *)
THEOREM ReservesNeverOverstated == PlatformSpec => []ReserveNotOverstated
<1>1. PlatformInit => ReserveInv
  <2>. SUFFICES ASSUME ReserveInit PROVE ReserveInv BY DEF PlatformInit
  <2>1. /\ DOMAIN reserve = ReserveFields /\ reserve.assets = EmptyMap
        /\ reserve.listed = <<>> /\ reserve.total = 0
        /\ reserve.attestations = EmptyMap /\ reserve.redemptions = EmptyMap
    BY DEF ReserveInit, ReserveFields
  <2>2. DOMAIN EmptyMap = {} BY DEF EmptyMap
  <2>3. IsFiniteSet({}) /\ Cardinality({}) = 0 BY FS_EmptySet
  <2>4. Total(Quantities(EmptyMap), {}) = 0 BY <2>3, TotalNext
  <2>5. AssetsListed(<<>>, EmptyMap) BY <2>2, <2>3, EmptyList DEF AssetsListed, ToSet
  <2>. QED BY <2>1, <2>2, <2>3, <2>4, <2>5 DEF ReserveInv, AssetsKept, RequestsKept
<1>2. ReserveInv /\ [PlatformNext]_platformVars => ReserveInv'
  <2>. SUFFICES ASSUME ReserveInv, [PlatformNext]_platformVars PROVE ReserveInv' OBVIOUS
  <2>1. reserve' = reserve \/ ReserveNext BY CollectiveSteps
  <2>2. CASE reserve' = reserve BY <2>2 DEF ReserveInv
  <2>. QED BY <2>1, <2>2, ReserveStep
<1>3. ReserveInv => ReserveNotOverstated
  BY DEF ReserveInv, ReserveNotOverstated, AssetsListed, Quantities
<1>. QED BY <1>1, <1>2, <1>3, PTL DEF PlatformSpec

-----------------------------------------------------------------------------
(* Collective money: votes and delegation.                                   *)

DaoFields == {"owner", "config", "proposals", "power", "votes"}
ProposalFields ==
    {"proposer", "start_ledger", "end_ledger", "execution_ledger", "status", "tally"}
PowerFields == {"base_power", "delegated_power", "delegated_to"}

Bases(power) == [b \in Account |-> power[b].base_power]
DelegatorsOf(power, a) == {b \in Account : power[b].delegated_to = Some(a)}

(* Nobody delegates to itself.                                               *)
PowerKept(r, a) ==
    /\ DOMAIN r = PowerFields
    /\ r.base_power \in Nat /\ r.delegated_power \in Nat
    /\ r.delegated_to = None \/ \E b \in Account : b # a /\ r.delegated_to = Some(b)

Covered(power) ==
    \A a \in Account :
        power[a].delegated_power >= Total(Bases(power), DelegatorsOf(power, a))

PowersKept(power) ==
    /\ DOMAIN power = Account
    /\ \A a \in Account : PowerKept(power[a], a)
    /\ Covered(power)

(* A tally is one of numbers, and a proposal executed keeps its majority     *)
(* because its votes are over.                                               *)
ProposalKept(p) ==
    /\ DOMAIN p = ProposalFields
    /\ p.end_ledger \in Nat
    /\ DOMAIN p.tally = VoteChoice
    /\ \A c \in VoteChoice : p.tally[c] \in Nat
    /\ p.status = "Executed" => clock > p.end_ledger /\ p.tally["For"] > p.tally["Against"]

PowersIn(votes) == [v \in DOMAIN votes |-> votes[v].power]
VotesFor(votes, p, c) == {v \in DOMAIN votes : v[2] = p /\ votes[v].choice = c}

VotesKept(votes, proposals) ==
    /\ IsFiniteSet(DOMAIN votes)
    /\ \A v \in DOMAIN votes : votes[v].power \in Nat /\ v[2] \in DOMAIN proposals
    /\ \A p \in DOMAIN proposals, c \in VoteChoice :
          proposals[p].tally[c] = Total(PowersIn(votes), VotesFor(votes, p, c))

DaoInv ==
    /\ DOMAIN dao = DaoFields
    /\ dao.config = None \/ \E c \in GovernanceConfig : dao.config = Some(c)
    /\ PowersKept(dao.power)
    /\ IsList(dao.proposals)
    /\ \A p \in DOMAIN dao.proposals : ProposalKept(dao.proposals[p])
    /\ VotesKept(dao.votes, dao.proposals)

(* The delegations of d end up with t, who is given what d holds.            *)
LEMMA DelegationGiven ==
    ASSUME NEW power, PowersKept(power), NEW d \in Account, NEW t \in Account, d # t,
           NEW new, DOMAIN new = Account,
           \A a \in Account : /\ DOMAIN new[a] = PowerFields
                              /\ new[a].base_power = power[a].base_power,
           new[d].delegated_to = Some(t),
           \A a \in Account : a # d => new[a].delegated_to = power[a].delegated_to,
           new[t].delegated_power = power[t].delegated_power + power[d].base_power,
           \A a \in Account : a # t => new[a].delegated_power = power[a].delegated_power
    PROVE  PowersKept(new)
<1>1. \A a \in Account : /\ power[a].base_power \in Nat /\ power[a].delegated_power \in Nat
                         /\ power[a].delegated_power
                              >= Total(Bases(power), DelegatorsOf(power, a))
  BY DEF PowersKept, PowerKept, Covered
<1>2. PICK f : f = Bases(power) OBVIOUS
<1>3. f = Bases(new) /\ \A a \in Account : f[a] = power[a].base_power /\ f[a] \in Nat
  BY <1>1, <1>2 DEF Bases
<1>4. ASSUME NEW a \in Account
      PROVE  PowerKept(new[a], a)
  <2>1. power[a].delegated_power + power[d].base_power \in Nat BY <1>1
  <2>2. new[a].delegated_power \in Nat /\ new[a].base_power \in Nat BY <1>1, <2>1
  <2>3. \/ new[a].delegated_to = None
        \/ \E b \in Account : b # a /\ new[a].delegated_to = Some(b)
    BY DEF PowersKept, PowerKept
  <2>. QED BY <2>2, <2>3 DEF PowerKept
<1>5. ASSUME NEW a \in Account
      PROVE  new[a].delegated_power >= Total(f, DelegatorsOf(new, a))
  <2>1. PICK old, now : old = DelegatorsOf(power, a) /\ now = DelegatorsOf(new, a) OBVIOUS
  <2>2. old \subseteq Account /\ IsFiniteSet(old) /\ now \subseteq Account /\ IsFiniteSet(now)
    BY <2>1, DaoAssumption, FS_Subset DEF DelegatorsOf
  <2>3. /\ \A x \in old : f[x] \in Nat /\ f[x] \in Int
        /\ \A x \in now : f[x] \in Nat /\ f[x] \in Int
    BY <1>3, <2>2
  <2>4. Total(f, old) \in Nat /\ Total(f, now) \in Nat BY <2>2, <2>3, TotalType
  <2>5. power[a].delegated_power >= Total(f, old) BY <1>1, <1>2, <2>1
  <2>6. CASE a # t
    <3>1. now \subseteq old BY <2>1, <2>6 DEF DelegatorsOf, Some
    <3>2. Total(f, now) <= Total(f, old) BY <2>2, <2>3, <3>1, TotalPart
    <3>. QED BY <1>1, <2>1, <2>4, <2>5, <2>6, <3>2
  <2>7. CASE a = t
    <3>1. now = old \cup {d} BY <2>1, <2>7 DEF DelegatorsOf, Some
    <3>2. f[d] \in Int /\ f[d] \in Nat BY <1>3
    <3>3. Total(f, now) = f[d] + Total(f, now \ {d}) BY <2>2, <2>3, <3>1, TotalTake
    <3>4. Total(f, now \ {d}) \in Nat /\ Total(f, now \ {d}) <= Total(f, old)
      <4>1. PICK rest : rest = now \ {d} OBVIOUS
      <4>2. rest \subseteq old /\ IsFiniteSet(rest) BY <2>2, <3>1, <4>1, FS_Subset
      <4>3. \A x \in rest : f[x] \in Nat BY <2>3, <4>2
      <4>. QED BY <2>2, <2>3, <4>1, <4>2, <4>3, TotalPart, TotalType
    <3>5. Total(f, now) <= Total(f, old) + f[d] BY <2>4, <3>2, <3>3, <3>4
    <3>6. new[a].delegated_power = power[a].delegated_power + f[d] BY <1>3, <2>7
    <3>. QED BY <1>1, <2>1, <2>4, <2>5, <3>2, <3>5, <3>6
  <2>. QED BY <2>6, <2>7
<1>. QED BY <1>3, <1>4, <1>5 DEF PowersKept, Covered

(* d takes its delegation back from t.                                       *)
LEMMA DelegationTaken ==
    ASSUME NEW power, PowersKept(power), NEW d \in Account, NEW t \in Account,
           power[d].delegated_to = Some(t),
           NEW new, DOMAIN new = Account,
           \A a \in Account : /\ DOMAIN new[a] = PowerFields
                              /\ new[a].base_power = power[a].base_power,
           new[d].delegated_to = None,
           \A a \in Account : a # d => new[a].delegated_to = power[a].delegated_to,
           new[t].delegated_power = power[t].delegated_power - power[d].base_power,
           \A a \in Account : a # t => new[a].delegated_power = power[a].delegated_power
    PROVE  PowersKept(new)
<1>1. \A a \in Account : /\ power[a].base_power \in Nat /\ power[a].delegated_power \in Nat
                         /\ power[a].delegated_power
                              >= Total(Bases(power), DelegatorsOf(power, a))
  BY DEF PowersKept, PowerKept, Covered
<1>2. PICK f : f = Bases(power) OBVIOUS
<1>3. f = Bases(new) /\ \A a \in Account : f[a] = power[a].base_power /\ f[a] \in Nat
  BY <1>1, <1>2 DEF Bases
<1>5. ASSUME NEW a \in Account
      PROVE  /\ new[a].delegated_power >= Total(f, DelegatorsOf(new, a))
             /\ new[a].delegated_power \in Nat
  <2>1. PICK old, now : old = DelegatorsOf(power, a) /\ now = DelegatorsOf(new, a) OBVIOUS
  <2>2. old \subseteq Account /\ IsFiniteSet(old) /\ now \subseteq Account /\ IsFiniteSet(now)
    BY <2>1, DaoAssumption, FS_Subset DEF DelegatorsOf
  <2>3. /\ \A x \in old : f[x] \in Nat /\ f[x] \in Int
        /\ \A x \in now : f[x] \in Nat /\ f[x] \in Int
    BY <1>3, <2>2
  <2>4. Total(f, old) \in Nat /\ Total(f, now) \in Nat BY <2>2, <2>3, TotalType
  <2>5. power[a].delegated_power >= Total(f, old) BY <1>1, <1>2, <2>1
  <2>0. ~(Some(a) = None) BY DEF Some, None
  <2>8. now = old \ {d}
    <3>1. ASSUME NEW b \in Account PROVE b \in now <=> b \in old /\ b # d
      BY <2>0, <2>1 DEF DelegatorsOf
    <3>. QED BY <2>2, <3>1
  <2>6. CASE a # t
    <3>1. now \subseteq old BY <2>8
    <3>2. Total(f, now) <= Total(f, old) BY <2>2, <2>3, <3>1, TotalPart
    <3>3. new[a].delegated_power = power[a].delegated_power BY <2>6
    <3>. QED BY <1>1, <2>1, <2>4, <2>5, <3>2, <3>3
  <2>7. CASE a = t
    <3>1. d \in old BY <2>1, <2>7 DEF DelegatorsOf
    <3>2. Total(f, old) = f[d] + Total(f, now) BY <2>2, <2>3, <2>8, <3>1, TotalTake
    <3>3. f[d] \in Nat BY <1>3
    <3>4. new[a].delegated_power = power[a].delegated_power - f[d] BY <1>3, <2>7
    <3>. QED BY <1>1, <2>1, <2>4, <2>5, <3>2, <3>3, <3>4
  <2>. QED BY <2>6, <2>7
<1>4. ASSUME NEW a \in Account
      PROVE  PowerKept(new[a], a)
  <2>2. new[a].delegated_power \in Nat /\ new[a].base_power \in Nat BY <1>1, <1>5
  <2>3. \/ new[a].delegated_to = None
        \/ \E b \in Account : b # a /\ new[a].delegated_to = Some(b)
    BY DEF PowersKept, PowerKept
  <2>. QED BY <2>2, <2>3 DEF PowerKept
<1>. QED BY <1>3, <1>4, <1>5 DEF PowersKept, Covered

(* A vote by a new key, recorded and counted.                                *)
LEMMA VoteCounted ==
    ASSUME NEW votes, NEW proposals, VotesKept(votes, proposals),
           NEW key, key \notin DOMAIN votes, key[2] \in DOMAIN proposals,
           NEW n \in Nat, NEW c \in VoteChoice, NEW r, r.choice = c, r.power = n,
           NEW after, DOMAIN after = DOMAIN proposals,
           \A p \in DOMAIN proposals, x \in VoteChoice :
              /\ proposals[p].tally[x] \in Nat
              /\ after[p].tally[x] =
                    IF p = key[2] /\ x = c THEN proposals[p].tally[x] + n
                    ELSE proposals[p].tally[x]
    PROVE  VotesKept(Put(votes, key, r), after)
<1>1. PICK more : more = Put(votes, key, r) OBVIOUS
<1>2. /\ DOMAIN more = DOMAIN votes \cup {key} /\ more[key] = r
      /\ \A v \in DOMAIN votes : more[v] = votes[v]
  BY <1>1 DEF Put
<1>3. /\ IsFiniteSet(DOMAIN votes)
      /\ \A v \in DOMAIN votes : votes[v].power \in Nat /\ v[2] \in DOMAIN proposals
  BY DEF VotesKept
<1>4. IsFiniteSet(DOMAIN more) BY <1>2, <1>3, FS_AddElement
<1>5. \A v \in DOMAIN more : more[v].power \in Nat /\ v[2] \in DOMAIN after BY <1>2, <1>3
<1>6. PICK f, g : f = PowersIn(votes) /\ g = PowersIn(more) OBVIOUS
<1>7. /\ \A v \in DOMAIN votes : f[v] = votes[v].power /\ f[v] \in Int /\ g[v] = f[v]
      /\ g[key] = n /\ g[key] \in Int
  BY <1>2, <1>3, <1>6 DEF PowersIn
<1>8. ASSUME NEW p \in DOMAIN proposals, NEW x \in VoteChoice
      PROVE  after[p].tally[x] = Total(g, VotesFor(more, p, x))
  <2>1. PICK S, T : S = VotesFor(votes, p, x) /\ T = VotesFor(more, p, x) OBVIOUS
  <2>2. S \subseteq DOMAIN votes BY <2>1 DEF VotesFor
  <2>3. IsFiniteSet(S) BY <1>3, <2>2, FS_Subset
  <2>4. proposals[p].tally[x] = Total(f, S) BY <1>6, <2>1 DEF VotesKept
  <2>5. CASE p = key[2] /\ x = c
    <3>1. T = S \cup {key}
      <4>1. ASSUME NEW v PROVE v \in T <=> v \in S \/ v = key
        BY <1>2, <2>1, <2>5 DEF VotesFor
      <4>. QED BY <4>1
    <3>2. key \notin S BY <2>2
    <3>3. \A v \in S : f[v] \in Int BY <1>7, <2>2
    <3>4. \A v \in S : v # key => g[v] = f[v] BY <1>7, <2>2
    <3>5. Total(g, T) = Total(f, S) + g[key]
      BY <1>7, <2>3, <3>1, <3>2, <3>3, <3>4, TotalWritten
    <3>. QED BY <1>7, <2>1, <2>4, <2>5, <3>5
  <2>6. CASE ~(p = key[2] /\ x = c)
    <3>1. T = S
      <4>1. ASSUME NEW v PROVE v \in T <=> v \in S
        BY <1>2, <2>1, <2>6 DEF VotesFor
      <4>. QED BY <4>1
    <3>2. \A v \in S : g[v] = f[v] BY <1>7, <2>2
    <3>3. Total(g, S) = Total(f, S) BY <2>3, <3>2, TotalSame
    <3>. QED BY <2>1, <2>4, <2>6, <3>1, <3>3
  <2>. QED BY <2>5, <2>6
<1>. QED BY <1>1, <1>4, <1>5, <1>6, <1>8 DEF VotesKept

LEMMA DaoStep ==
    ASSUME DaoInv, DaoNext, clock \in Nat, clock' = clock
    PROVE  DaoInv'
<1>0. /\ DOMAIN dao = DaoFields /\ PowersKept(dao.power) /\ IsList(dao.proposals)
      /\ dao.config = None \/ \E c \in GovernanceConfig : dao.config = Some(c)
      /\ \A p \in DOMAIN dao.proposals : ProposalKept(dao.proposals[p])
      /\ VotesKept(dao.votes, dao.proposals)
  BY DEF DaoInv
<1>1. \A p : ProposalKept(p) <=> ProposalKept(p)' BY DEF ProposalKept
<1>2. ASSUME NEW c \in GovernanceConfig,
             DOMAIN dao' = DaoFields, dao'.config = Some(c), dao'.power = dao.power,
             dao'.proposals = dao.proposals, dao'.votes = dao.votes
      PROVE  DaoInv'
  BY <1>0, <1>1, <1>2 DEF DaoInv
<1>3. ASSUME NEW c \in GovernanceConfig,
             (\E a \in Account : initialize(a, c)) \/ update_config(c)
      PROVE  DaoInv'
  <2>1. /\ DOMAIN dao' = DaoFields /\ dao'.config = Some(c) /\ dao'.power = dao.power
        /\ dao'.proposals = dao.proposals /\ dao'.votes = dao.votes
    BY <1>0, <1>3 DEF initialize, update_config, DaoFields
  <2>. QED BY <1>2, <2>1
<1>4. ASSUME NEW p \in DOMAIN dao.proposals, NEW q, ProposalKept(q),
             q.tally = dao.proposals[p].tally, DOMAIN dao' = DaoFields,
             dao'.config = dao.config, dao'.power = dao.power, dao'.votes = dao.votes,
             dao'.proposals = [dao.proposals EXCEPT ![p] = q]
      PROVE  DaoInv'
  <2>1. PICK ps : ps = [dao.proposals EXCEPT ![p] = q] OBVIOUS
  <2>2. IsList(ps) /\ DOMAIN ps = DOMAIN dao.proposals BY <1>0, <1>4, <2>1, ListFacts
  <2>3. \A k \in DOMAIN ps : /\ ProposalKept(ps[k]) /\ ps[k].tally = dao.proposals[k].tally
    BY <1>0, <1>4, <2>1
  <2>4. VotesKept(dao.votes, ps) BY <1>0, <2>2, <2>3 DEF VotesKept
  <2>. QED BY <1>0, <1>1, <1>4, <2>1, <2>2, <2>3, <2>4 DEF DaoInv
<1>5. ASSUME NEW p \in DOMAIN dao.proposals,
             execute_proposal(p) \/ \E a \in Account : cancel_proposal(a, p)
      PROVE  DaoInv'
  <2>1. PICK o : o = dao.proposals[p] OBVIOUS
  <2>2. PICK s : /\ s \in {"Executed", "Cancelled"}
                 /\ s = "Executed" => /\ clock > o.end_ledger
                                      /\ o.tally["For"] > o.tally["Against"]
                 /\ dao' = [dao EXCEPT !.proposals[p].status = s]
    BY <1>5, <2>1 DEF execute_proposal, cancel_proposal, proposal_passed
  <2>3. PICK q : q = [o EXCEPT !.status = s] OBVIOUS
  <2>4. ProposalKept(o) BY <1>0, <2>1
  <2>5. /\ DOMAIN q = ProposalFields /\ q.status = s /\ q.tally = o.tally
        /\ q.end_ledger = o.end_ledger
    BY <2>3, <2>4 DEF ProposalKept, ProposalFields
  <2>6. ProposalKept(q) BY <2>2, <2>4, <2>5 DEF ProposalKept
  <2>7. /\ DOMAIN dao' = DaoFields /\ dao'.config = dao.config /\ dao'.power = dao.power
        /\ dao'.votes = dao.votes /\ dao'.proposals = [dao.proposals EXCEPT ![p] = q]
    BY <1>0, <2>1, <2>2, <2>3 DEF DaoFields
  <2>. QED BY <1>4, <2>1, <2>5, <2>6, <2>7
<1>6. ASSUME NEW a \in Account, propose(a)
      PROVE  DaoInv'
  <2>1. PICK c \in GovernanceConfig : dao.config = Some(c) BY <1>0, <1>6 DEF propose
  <2>2. The(dao.config) = c BY <2>1 DEF Some, The
  <2>3. c.voting_delay \in Nat /\ c.voting_period \in Nat BY <2>1 DEF GovernanceConfig
  <2>4. PICK start, end, ex :
          /\ start = clock + c.voting_delay /\ end = start + c.voting_period
          /\ ex = end + c.timelock_delay
    OBVIOUS
  <2>5. end \in Nat BY <2>3, <2>4
  <2>6. PICK zero : zero = [x \in VoteChoice |-> 0] OBVIOUS
  <2>7. PICK q : q = [proposer |-> a, start_ledger |-> start, end_ledger |-> end,
                      execution_ledger |-> ex, status |-> "Active", tally |-> zero]
    OBVIOUS
  <2>8. /\ DOMAIN q = ProposalFields /\ q.status = "Active" /\ q.end_ledger = end
        /\ q.tally = zero
    BY <2>7 DEF ProposalFields
  <2>9. ProposalKept(q) BY <2>5, <2>6, <2>8 DEF ProposalKept
  <2>10. PICK ps : ps = Append(dao.proposals, q) OBVIOUS
  <2>11. /\ DOMAIN dao' = DaoFields /\ dao'.config = dao.config /\ dao'.power = dao.power
         /\ dao'.votes = dao.votes /\ dao'.proposals = ps
    BY <1>0, <1>6, <2>2, <2>4, <2>6, <2>7, <2>10 DEF propose, DaoFields
  <2>12. PICK n \in Nat : n = Len(dao.proposals) /\ DOMAIN dao.proposals = 1..n
    BY <1>0, ListFacts
  <2>13. /\ IsList(ps) /\ DOMAIN ps = 1..(n + 1) /\ ps[n + 1] = q
         /\ \A k \in 1..n : ps[k] = dao.proposals[k]
    BY <1>0, <2>10, <2>12, ListFacts
  <2>14. \A k : k \in 1..(n + 1) <=> k \in 1..n \/ k = n + 1 BY <2>12
  <2>15. \A k \in DOMAIN ps : ProposalKept(ps[k]) BY <1>0, <2>9, <2>12, <2>13, <2>14
  <2>16. VotesKept(dao.votes, ps)
    <3>1. \A x \in VoteChoice : VotesFor(dao.votes, n + 1, x) = {}
      <4>1. \A v \in DOMAIN dao.votes : v[2] \in 1..n BY <1>0, <2>12 DEF VotesKept
      <4>2. ~(n + 1 \in 1..n) BY <2>12
      <4>. QED BY <4>1, <4>2 DEF VotesFor
    <3>2. Total(PowersIn(dao.votes), {}) = 0 BY FS_EmptySet, TotalNext
    <3>3. \A x \in VoteChoice :
             ps[n + 1].tally[x] = Total(PowersIn(dao.votes), VotesFor(dao.votes, n + 1, x))
      BY <2>6, <2>8, <2>13, <3>1, <3>2
    <3>4. \A p \in 1..n, x \in VoteChoice :
             ps[p].tally[x] = Total(PowersIn(dao.votes), VotesFor(dao.votes, p, x))
      BY <1>0, <2>12, <2>13 DEF VotesKept
    <3>5. \A v \in DOMAIN dao.votes : dao.votes[v].power \in Nat /\ v[2] \in DOMAIN ps
      BY <1>0, <2>12, <2>13, <2>14 DEF VotesKept
    <3>6. IsFiniteSet(DOMAIN dao.votes) BY <1>0 DEF VotesKept
    <3>. QED BY <2>13, <2>14, <3>3, <3>4, <3>5, <3>6 DEF VotesKept
  <2>. QED BY <1>0, <1>1, <2>11, <2>13, <2>15, <2>16 DEF DaoInv
<1>7. ASSUME NEW a \in Account, NEW p \in DOMAIN dao.proposals, NEW c \in VoteChoice,
             vote(a, p, c)
      PROVE  DaoInv'
  <2>1. PICK o, key, n : o = dao.proposals[p] /\ key = <<a, p>> /\ n = PowerOf(a) OBVIOUS
  <2>2. /\ clock <= o.end_ledger /\ key \notin DOMAIN dao.votes /\ key[2] = p
    BY <1>7, <2>1 DEF vote
  <2>3. n \in Nat BY <1>0, <2>1 DEF PowerOf, PowersKept, PowerKept
  <2>4. ProposalKept(o) BY <1>0, <2>1
  <2>5. PICK t : t = [o.tally EXCEPT ![c] = o.tally[c] + n] OBVIOUS
  <2>6. /\ DOMAIN t = VoteChoice /\ t[c] = o.tally[c] + n
        /\ \A x \in VoteChoice : x # c => t[x] = o.tally[x]
    BY <2>4, <2>5 DEF ProposalKept
  <2>7. \A x \in VoteChoice : t[x] \in Nat BY <2>3, <2>4, <2>6 DEF ProposalKept
  <2>8. PICK q : q = [o EXCEPT !.tally = t] OBVIOUS
  <2>9. /\ DOMAIN q = ProposalFields /\ q.tally = t /\ q.status = o.status
        /\ q.end_ledger = o.end_ledger
    BY <2>4, <2>8 DEF ProposalKept, ProposalFields
  <2>10. o.status # "Executed" BY <2>2, <2>4 DEF ProposalKept
  <2>11. ProposalKept(q) BY <2>4, <2>6, <2>7, <2>9, <2>10 DEF ProposalKept
  <2>12. PICK r : r = [choice |-> c, power |-> n] OBVIOUS
  <2>13. r.choice = c /\ r.power = n BY <2>12
  <2>14. PICK ps, vs : /\ ps = [dao.proposals EXCEPT ![p] = q]
                       /\ vs = Put(dao.votes, key, r)
    OBVIOUS
  <2>15. /\ DOMAIN dao' = DaoFields /\ dao'.config = dao.config /\ dao'.power = dao.power
         /\ dao'.votes = vs /\ dao'.proposals = ps
    BY <1>0, <1>7, <2>1, <2>5, <2>8, <2>12, <2>14 DEF vote, DaoFields
  <2>16. IsList(ps) /\ DOMAIN ps = DOMAIN dao.proposals BY <1>0, <1>7, <2>14, ListFacts
  <2>17. ps[p] = q /\ \A k \in DOMAIN ps : k # p => ps[k] = dao.proposals[k] BY <2>14
  <2>18. \A k \in DOMAIN ps : ProposalKept(ps[k]) BY <1>0, <2>11, <2>16, <2>17
  <2>19. ASSUME NEW k \in DOMAIN dao.proposals, NEW x \in VoteChoice
         PROVE  /\ dao.proposals[k].tally[x] \in Nat
                /\ ps[k].tally[x] = IF k = key[2] /\ x = c THEN dao.proposals[k].tally[x] + n
                                    ELSE dao.proposals[k].tally[x]
    <3>1. ProposalKept(dao.proposals[k]) BY <1>0
    <3>2. dao.proposals[k].tally[x] \in Nat BY <3>1 DEF ProposalKept
    <3>. QED BY <2>1, <2>2, <2>6, <2>9, <2>16, <2>17, <3>2
  <2>20. VotesKept(Put(dao.votes, key, r), ps)
    BY <1>0, <1>7, <2>2, <2>3, <2>13, <2>16, <2>19, VoteCounted
  <2>21. VotesKept(vs, ps) BY <2>14, <2>20
  <2>. QED BY <1>0, <1>1, <2>15, <2>16, <2>18, <2>21 DEF DaoInv
<1>8. ASSUME DOMAIN dao' = DaoFields, dao'.config = dao.config, dao'.votes = dao.votes,
             dao'.proposals = dao.proposals, PowersKept(dao'.power)
      PROVE  DaoInv'
  BY <1>0, <1>1, <1>8 DEF DaoInv
<1>9. ASSUME NEW d \in Account, NEW t \in Account, delegate(d, t)
      PROVE  DaoInv'
  <2>1. PICK power : power = dao.power OBVIOUS
  <2>2. d # t /\ DOMAIN power = Account /\ \A a \in Account : DOMAIN power[a] = PowerFields
    BY <1>0, <1>9, <2>1 DEF delegate, PowersKept, PowerKept
  <2>3. PICK rd, rt :
          /\ rd = [power[d] EXCEPT !.delegated_to = Some(t)]
          /\ rt = [power[t] EXCEPT !.delegated_power = @ + power[d].base_power]
    OBVIOUS
  <2>4. /\ DOMAIN rd = PowerFields /\ rd.delegated_to = Some(t)
        /\ rd.base_power = power[d].base_power /\ rd.delegated_power = power[d].delegated_power
        /\ DOMAIN rt = PowerFields /\ rt.delegated_to = power[t].delegated_to
        /\ rt.base_power = power[t].base_power
        /\ rt.delegated_power = power[t].delegated_power + power[d].base_power
    BY <2>2, <2>3 DEF PowerFields
  <2>5. PICK new : new = [power EXCEPT ![d] = rd, ![t] = rt] OBVIOUS
  <2>6. /\ DOMAIN new = Account /\ new[d] = rd /\ new[t] = rt
        /\ \A a \in Account : a # d /\ a # t => new[a] = power[a]
    BY <2>2, <2>5
  <2>7. /\ DOMAIN dao' = DaoFields /\ dao'.config = dao.config /\ dao'.votes = dao.votes
        /\ dao'.proposals = dao.proposals /\ dao'.power = new
    BY <1>0, <1>9, <2>1, <2>2, <2>3, <2>5 DEF delegate, DaoFields
  <2>8. \A a \in Account : DOMAIN new[a] = PowerFields /\ new[a].base_power = power[a].base_power
    BY <2>2, <2>4, <2>6
  <2>9. \A a \in Account : a # d => new[a].delegated_to = power[a].delegated_to BY <2>4, <2>6
  <2>10. \A a \in Account : a # t => new[a].delegated_power = power[a].delegated_power
    BY <2>4, <2>6
  <2>11. PowersKept(new)
    BY <1>0, <2>1, <2>2, <2>4, <2>6, <2>8, <2>9, <2>10, DelegationGiven
  <2>. QED BY <1>8, <2>7, <2>11
<1>10. ASSUME NEW d \in Account, undelegate(d)
       PROVE  DaoInv'
  <2>1. PICK power : power = dao.power OBVIOUS
  <2>2. DOMAIN power = Account /\ \A a \in Account : DOMAIN power[a] = PowerFields
    BY <1>0, <2>1 DEF PowersKept, PowerKept
  <2>3. PICK t \in Account : t # d /\ power[d].delegated_to = Some(t)
    BY <1>0, <1>10, <2>1 DEF undelegate, PowersKept, PowerKept
  <2>4. The(power[d].delegated_to) = t BY <2>3 DEF Some, The
  <2>5. PICK rd, rt :
          /\ rd = [power[d] EXCEPT !.delegated_to = None]
          /\ rt = [power[t] EXCEPT !.delegated_power = @ - power[d].base_power]
    OBVIOUS
  <2>6. /\ DOMAIN rd = PowerFields /\ rd.delegated_to = None
        /\ rd.base_power = power[d].base_power /\ rd.delegated_power = power[d].delegated_power
        /\ DOMAIN rt = PowerFields /\ rt.delegated_to = power[t].delegated_to
        /\ rt.base_power = power[t].base_power
        /\ rt.delegated_power = power[t].delegated_power - power[d].base_power
    BY <2>2, <2>5 DEF PowerFields
  <2>7. PICK new : new = [power EXCEPT ![t] = rt, ![d] = rd] OBVIOUS
  <2>8. /\ DOMAIN new = Account /\ new[d] = rd /\ new[t] = rt
        /\ \A a \in Account : a # d /\ a # t => new[a] = power[a]
    BY <2>2, <2>3, <2>7
  <2>9. /\ DOMAIN dao' = DaoFields /\ dao'.config = dao.config /\ dao'.votes = dao.votes
        /\ dao'.proposals = dao.proposals /\ dao'.power = new
    BY <1>0, <1>10, <2>1, <2>2, <2>3, <2>4, <2>5, <2>7 DEF undelegate, DaoFields
  <2>10. \A a \in Account : DOMAIN new[a] = PowerFields /\ new[a].base_power = power[a].base_power
    BY <2>2, <2>6, <2>8
  <2>11. \A a \in Account : a # d => new[a].delegated_to = power[a].delegated_to BY <2>6, <2>8
  <2>12. \A a \in Account : a # t => new[a].delegated_power = power[a].delegated_power
    BY <2>6, <2>8
  <2>13. PowersKept(new)
    BY <1>0, <2>1, <2>3, <2>6, <2>8, <2>10, <2>11, <2>12, DelegationTaken
  <2>. QED BY <1>8, <2>9, <2>13
<1>. QED BY <1>3, <1>5, <1>6, <1>7, <1>9, <1>10 DEF DaoNext

(* Time that passes leaves an executed proposal's votes over.                *)
LEMMA DaoAges ==
    ASSUME DaoInv, dao' = dao, clock \in Nat, clock' \in Nat, clock <= clock'
    PROVE  DaoInv'
<1>1. ASSUME NEW p, ProposalKept(p)
      PROVE  ProposalKept(p)'
  <2>1. PICK e \in Nat : e = p.end_ledger BY <1>1 DEF ProposalKept
  <2>2. clock > e => clock' > e BY <2>1
  <2>. QED BY <1>1, <2>1, <2>2 DEF ProposalKept
<1>. QED BY <1>1 DEF DaoInv

LEMMA DaoBegins ==
    ASSUME DaoInit
    PROVE  DaoInv
<1>1. PICK base \in [Account -> Power] :
        dao = [owner |-> None, config |-> None, proposals |-> <<>>,
               power |-> [a \in Account |-> [base_power |-> base[a],
                                             delegated_power |-> 0,
                                             delegated_to |-> None]],
               votes |-> EmptyMap]
  BY DEF DaoInit
<1>2. PICK power : power = [a \in Account |-> [base_power |-> base[a], delegated_power |-> 0,
                                               delegated_to |-> None]]
  OBVIOUS
<1>3. /\ DOMAIN dao = DaoFields /\ dao.config = None /\ dao.proposals = <<>>
      /\ dao.power = power /\ dao.votes = EmptyMap
  BY <1>1, <1>2 DEF DaoFields
<1>4. \A a \in Account : /\ DOMAIN power[a] = PowerFields /\ power[a].base_power \in Nat
                         /\ power[a].delegated_power = 0 /\ power[a].delegated_to = None
  BY <1>1, <1>2, DaoAssumption DEF PowerFields
<1>5. \A a \in Account : DelegatorsOf(power, a) = {} BY <1>4 DEF DelegatorsOf, Some, None
<1>6. Total(Bases(power), {}) = 0 BY FS_EmptySet, TotalNext
<1>7. PowersKept(power)
  <2>1. DOMAIN power = Account BY <1>2
  <2>. QED BY <1>4, <1>5, <1>6, <2>1 DEF PowersKept, PowerKept, Covered
<1>8. DOMAIN EmptyMap = {} /\ IsList(<<>>) /\ DOMAIN (<<>>) = {} BY EmptyList DEF EmptyMap
<1>9. VotesKept(EmptyMap, <<>>) BY <1>8, FS_EmptySet DEF VotesKept
<1>. QED BY <1>3, <1>7, <1>8, <1>9 DEF DaoInv

-----------------------------------------------------------------------------
(* Collective money: the treasury.                                           *)

(* A sum over two sets that share nothing.                                   *)
LEMMA TotalSplit ==
    ASSUME NEW f, NEW A, NEW B, IsFiniteSet(A), IsFiniteSet(B), A \cap B = {},
           \A x \in A \cup B : f[x] \in Int
    PROVE  Total(f, A \cup B) = Total(f, A) + Total(f, B)
<1>. DEFINE G == {T \in SUBSET B : Total(f, A \cup T) = Total(f, A) + Total(f, T)}
<1>1. ASSUME NEW T \in SUBSET B, \A U \in SUBSET T : U # T => U \in G
      PROVE  T \in G
  <2>1. IsFiniteSet(T) BY FS_Subset
  <2>2. Total(f, A) \in Int /\ Total(f, {}) = 0 BY TotalType, TotalNext, FS_EmptySet
  <2>3. CASE T = {}
    <3>1. A \cup T = A BY <2>3
    <3>. QED BY <2>2, <2>3, <3>1
  <2>4. CASE T # {}
    <3>1. PICK y : y \in T BY <2>4
    <3>2. PICK U : U = T \ {y} OBVIOUS
    <3>3. U \in SUBSET T /\ U # T BY <3>1, <3>2
    <3>4. Total(f, A \cup U) = Total(f, A) + Total(f, U) BY <1>1, <3>3
    <3>5. IsFiniteSet(A \cup T) BY <2>1, FS_Union
    <3>6. \A x \in A \cup T : f[x] \in Int OBVIOUS
    <3>7. (A \cup T) \ {y} = A \cup U BY <3>1, <3>2
    <3>8. Total(f, A \cup T) = f[y] + Total(f, A \cup U)
      BY <3>1, <3>5, <3>6, <3>7, TotalTake
    <3>9. Total(f, T) = f[y] + Total(f, U)
      BY <2>1, <3>1, <3>2, <3>6, TotalTake
    <3>10. IsFiniteSet(U) /\ \A x \in U : f[x] \in Int BY <2>1, <3>2, <3>6, FS_Subset
    <3>11. Total(f, U) \in Int /\ f[y] \in Int BY <3>1, <3>6, <3>10, TotalType
    <3>. QED BY <2>2, <3>4, <3>8, <3>9, <3>11
  <2>. QED BY <2>3, <2>4
<1>. HIDE DEF G
<1>2. \A T \in SUBSET B : T \in G BY ONLY IsFiniteSet(B), <1>1, SubsetInduction
<1>3. B \in G BY <1>2
<1>. QED BY <1>3 DEF G

(* Every share rounded down: together they are at most the whole, in parts   *)
(* of the basis.                                                             *)
LEMMA SharesScaled ==
    ASSUME NEW S, IsFiniteSet(S), NEW fees \in Nat, NEW bps, NEW share,
           \A k \in S : bps[k] \in Nat /\ share[k] = (fees * bps[k]) \div FeeBasis
    PROVE  FeeBasis * Total(share, S) <= fees * Total(bps, S)
<1>. DEFINE G == {T \in SUBSET S : FeeBasis * Total(share, T) <= fees * Total(bps, T)}
<1>0. ASSUME NEW k \in S
      PROVE  share[k] \in Nat /\ FeeBasis * share[k] <= fees * bps[k]
  <2>1. PICK b \in Nat : b = bps[k] OBVIOUS
  <2>2. PICK p \in Nat : p = fees * b BY <2>1
  <2>3. share[k] = p \div FeeBasis BY <2>1, <2>2
  <2>4. p \div 10000 \in Nat /\ 10000 * (p \div 10000) <= p BY <2>2
  <2>. QED BY <2>1, <2>2, <2>3, <2>4 DEF FeeBasis
<1>1. ASSUME NEW T \in SUBSET S, \A U \in SUBSET T : U # T => U \in G
      PROVE  T \in G
  <2>1. IsFiniteSet(T) BY FS_Subset
  <2>2. CASE T = {}
    <3>1. Total(share, {}) = 0 /\ Total(bps, {}) = 0 BY TotalNext, FS_EmptySet
    <3>. QED BY <2>2, <3>1 DEF FeeBasis
  <2>3. CASE T # {}
    <3>1. PICK y : y \in T BY <2>3
    <3>2. PICK U : U = T \ {y} OBVIOUS
    <3>3. U \in SUBSET T /\ U # T BY <3>1, <3>2
    <3>4. FeeBasis * Total(share, U) <= fees * Total(bps, U) BY <1>1, <3>3
    <3>5. \A x \in T : share[x] \in Nat /\ bps[x] \in Nat /\ share[x] \in Int /\ bps[x] \in Int
      BY <1>0
    <3>6. Total(share, T) = share[y] + Total(share, U) BY <2>1, <3>1, <3>2, <3>5, TotalTake
    <3>7. Total(bps, T) = bps[y] + Total(bps, U) BY <2>1, <3>1, <3>2, <3>5, TotalTake
    <3>8. IsFiniteSet(U) /\ \A x \in U : share[x] \in Nat /\ bps[x] \in Nat
      BY <2>1, <3>2, <3>5, FS_Subset
    <3>9. PICK s \in Nat, b \in Nat : s = Total(share, U) /\ b = Total(bps, U)
      BY <3>8, TotalType
    <3>10. PICK v \in Nat, c \in Nat : v = share[y] /\ c = bps[y] BY <3>1, <3>5
    <3>11. 10000 * v <= fees * c BY <1>0, <3>1, <3>10 DEF FeeBasis
    <3>12. 10000 * s <= fees * b BY <3>4, <3>9 DEF FeeBasis
    <3>13. fees * (c + b) = fees * c + fees * b BY <3>9, <3>10
    <3>14. PICK m \in Nat, n \in Nat : m = fees * c /\ n = fees * b BY <3>9, <3>10
    <3>15. 10000 * (v + s) <= m + n BY <3>9, <3>10, <3>11, <3>12, <3>14
    <3>. QED BY <3>6, <3>7, <3>9, <3>10, <3>13, <3>14, <3>15 DEF FeeBasis
  <2>. QED BY <2>2, <2>3
<1>. HIDE DEF G
<1>2. \A T \in SUBSET S : T \in G BY ONLY IsFiniteSet(S), <1>1, SubsetInduction
<1>3. S \in G BY <1>2
<1>. QED BY <1>3 DEF G

(* The entries of a fee list that name a.                                    *)
Naming(list, K, a) == {k \in K : list[k].recipient = a}
NamingAny(list, K, A) == {k \in K : list[k].recipient \in A}

(* Everyone in A is paid the shares of the entries that name it: together    *)
(* the shares grow by those entries.                                         *)
LEMMA SharesPaid ==
    ASSUME NEW A, IsFiniteSet(A), NEW list, NEW K, IsFiniteSet(K), NEW share,
           \A k \in K : share[k] \in Nat,
           NEW old, \A a \in A : old[a] \in Nat,
           NEW new, \A a \in A : new[a] = old[a] + Total(share, Naming(list, K, a))
    PROVE  /\ \A a \in A : new[a] \in Nat
           /\ Total(new, A) = Total(old, A) + Total(share, NamingAny(list, K, A))
<1>. DEFINE G == {T \in SUBSET A :
                    Total(new, T) = Total(old, T) + Total(share, NamingAny(list, K, T))}
<1>0. \A a \in A : Total(share, Naming(list, K, a)) \in Nat /\ new[a] \in Nat
  <2>1. ASSUME NEW a \in A PROVE Total(share, Naming(list, K, a)) \in Nat
    <3>1. Naming(list, K, a) \subseteq K BY DEF Naming
    <3>2. IsFiniteSet(Naming(list, K, a)) BY <3>1, FS_Subset
    <3>3. \A k \in Naming(list, K, a) : share[k] \in Nat BY <3>1
    <3>. QED BY <3>2, <3>3, TotalType
  <2>. QED BY <2>1
<1>1. ASSUME NEW T \in SUBSET A, \A U \in SUBSET T : U # T => U \in G
      PROVE  T \in G
  <2>1. IsFiniteSet(T) BY FS_Subset
  <2>2. CASE T = {}
    <3>1. Total(new, {}) = 0 /\ Total(old, {}) = 0 /\ Total(share, {}) = 0
      BY TotalNext, FS_EmptySet
    <3>2. NamingAny(list, K, T) = {} BY <2>2 DEF NamingAny
    <3>. QED BY <2>2, <3>1, <3>2
  <2>3. CASE T # {}
    <3>1. PICK y : y \in T BY <2>3
    <3>2. PICK U : U = T \ {y} OBVIOUS
    <3>3. U \in SUBSET T /\ U # T BY <3>1, <3>2
    <3>4. Total(new, U) = Total(old, U) + Total(share, NamingAny(list, K, U)) BY <1>1, <3>3
    <3>5. \A x \in T : old[x] \in Int /\ new[x] \in Int BY <1>0
    <3>6. Total(new, T) = new[y] + Total(new, U) BY <2>1, <3>1, <3>2, <3>5, TotalTake
    <3>7. Total(old, T) = old[y] + Total(old, U) BY <2>1, <3>1, <3>2, <3>5, TotalTake
    <3>8. PICK P, Q : P = Naming(list, K, y) /\ Q = NamingAny(list, K, U) OBVIOUS
    <3>9. P \cup Q = NamingAny(list, K, T) BY <3>1, <3>2, <3>8 DEF Naming, NamingAny
    <3>10. P \cap Q = {} BY <3>2, <3>8 DEF Naming, NamingAny
    <3>11. P \subseteq K /\ Q \subseteq K BY <3>8 DEF Naming, NamingAny
    <3>12. IsFiniteSet(P) /\ IsFiniteSet(Q) BY <3>11, FS_Subset
    <3>13. \A k \in P \cup Q : share[k] \in Int BY <3>11
    <3>14. Total(share, P \cup Q) = Total(share, P) + Total(share, Q)
      BY <3>10, <3>12, <3>13, TotalSplit
    <3>15. Total(share, P) \in Int /\ Total(share, Q) \in Int BY <3>12, <3>13, TotalType
    <3>16. Total(old, U) \in Int /\ Total(new, U) \in Int /\ old[y] \in Int
      <4>1. IsFiniteSet(U) /\ \A x \in U : old[x] \in Int /\ new[x] \in Int
        BY <2>1, <3>2, <3>5, FS_Subset
      <4>. QED BY <3>1, <3>5, <4>1, TotalType
    <3>17. new[y] = old[y] + Total(share, P) BY <3>1, <3>8
    <3>18. Total(new, T) = Total(old, T) + Total(share, P \cup Q)
      BY <3>4, <3>6, <3>7, <3>8, <3>14, <3>15, <3>16, <3>17
    <3>. QED BY <3>9, <3>18
  <2>. QED BY <2>2, <2>3
<1>. HIDE DEF G
<1>2. \A T \in SUBSET A : T \in G BY ONLY IsFiniteSet(A), <1>1, SubsetInduction
<1>3. A \in G BY <1>2
<1>. QED BY <1>0, <1>3 DEF G

TreasuryFields ==
    {"ready", "signers", "required", "fees", "funds", "allocations", "approvals", "shares",
     "collected"}
FundFields == {"balance", "budget_limit", "budget_used"}
AllocationFields ==
    {"fund", "amount", "approved", "approval_count", "required_approvals", "execution_ledger"}

FundKept(f) ==
    /\ DOMAIN f = FundFields
    /\ f.budget_limit \in Nat /\ f.budget_used \in Nat
    /\ f.budget_used <= f.budget_limit

FundsKept(funds) == \A n \in DOMAIN funds : FundKept(funds[n])

ApproversOf(signers, approvals, k) == {s \in signers : <<k, s>> \in approvals}

(* The count an allocation keeps is the number of its approvers, and what    *)
(* was executed had been approved.                                           *)
AllocationKept(al, approvers) ==
    /\ DOMAIN al = AllocationFields
    /\ al.amount \in Nat /\ al.required_approvals \in Nat
    /\ al.approved \in BOOLEAN
    /\ IsFiniteSet(approvers)
    /\ al.approval_count = Cardinality(approvers)
    /\ al.approved => al.approval_count >= al.required_approvals
    /\ al.execution_ledger = 0 \/ al.approved

AllocationsKept(allocations, signers, approvals) ==
    /\ IsList(allocations)
    /\ \A k, s : <<k, s>> \in approvals => k \in DOMAIN allocations
    /\ \A k \in DOMAIN allocations :
          AllocationKept(allocations[k], ApproversOf(signers, approvals, k))

PartsOf(fees) == [k \in DOMAIN fees |-> fees[k].percentage_bps]

FeesListed(fees) ==
    /\ IsFiniteSet(DOMAIN fees)
    /\ \A k \in DOMAIN fees : fees[k].percentage_bps \in Nat
    /\ Total(PartsOf(fees), DOMAIN fees) <= FeeBasis

SharesKept(shares, collected) ==
    /\ collected \in Nat
    /\ DOMAIN shares = {} \/ DOMAIN shares = Account
    /\ \A a \in DOMAIN shares : shares[a] \in Nat
    /\ Total(shares, DOMAIN shares) <= collected

TreasuryInv ==
    /\ DOMAIN treasury = TreasuryFields
    /\ treasury.signers \subseteq Account /\ treasury.required \in Nat
    /\ treasury.ready \/ DOMAIN treasury.allocations = {}
    /\ FeesListed(treasury.fees)
    /\ FundsKept(treasury.funds)
    /\ AllocationsKept(treasury.allocations, treasury.signers, treasury.approvals)
    /\ SharesKept(treasury.shares, treasury.collected)

(* The part of a fee entry, and lists of one and of two of them.             *)
LEMMA PartNamed ==
    ASSUME NEW bps, NEW d \in FeeDistribution(bps)
    PROVE  d.percentage_bps = bps
<1>1. ASSUME NEW r, d \in [recipient : r, percentage_bps : {bps}, is_fund : {TRUE}]
      PROVE  d.percentage_bps = bps
  BY <1>1
<1>2. ASSUME NEW r, d \in [recipient : r, percentage_bps : {bps}, is_fund : {FALSE}]
      PROVE  d.percentage_bps = bps
  BY <1>2
<1>3. \/ d \in [recipient : Account, percentage_bps : {bps}, is_fund : {FALSE}]
      \/ d \in [recipient : {ZeroName}, percentage_bps : {bps}, is_fund : {TRUE}]
  BY Zenon DEF FeeDistribution
<1>. QED BY <1>1, <1>2, <1>3

LEMMA ListsOfParts ==
    ASSUME NEW d, NEW e, d.percentage_bps \in Nat, e.percentage_bps \in Nat
    PROVE  \A list \in {<<d>>, <<d, e>>} :
              /\ IsFiniteSet(DOMAIN list)
              /\ \A k \in DOMAIN list : list[k].percentage_bps \in Nat
<1>1. DOMAIN <<d>> = 1..1 /\ <<d>>[1] = d OBVIOUS
<1>2. DOMAIN <<d, e>> = 1..2 /\ <<d, e>>[1] = d /\ <<d, e>>[2] = e OBVIOUS
<1>3. IsFiniteSet(1..1) /\ IsFiniteSet(1..2)
  <2>1. 1 \in Int /\ 2 \in Int OBVIOUS
  <2>. QED BY <2>1, FS_Interval
<1>4. (\A k \in 1..1 : k = 1) /\ (\A k \in 1..2 : k = 1 \/ k = 2) OBVIOUS
<1>. QED BY <1>1, <1>2, <1>3, <1>4

SharesIn(fees, x) == [k \in DOMAIN fees |-> ShareOf(fees[k], x)]
PaidOn(shares, share, fees, K) ==
    [a \in Account |-> GetOr(shares, a, 0) + Total(share, Naming(fees, K, a))]

(* Fees handed out by the list: rounding keeps the shares within them.       *)
LEMMA FeesHandedOut ==
    ASSUME NEW fees, FeesListed(fees), NEW x \in Nat,
           NEW shares, NEW collected, SharesKept(shares, collected),
           NEW share, share = SharesIn(fees, x),
           NEW K \in SUBSET DOMAIN fees,
           NEW new, new = PaidOn(shares, share, fees, K)
    PROVE  SharesKept(new, collected + x)
<1>1. PICK S : S = DOMAIN fees OBVIOUS
<1>2. IsFiniteSet(S) /\ \A k \in S : fees[k].percentage_bps \in Nat BY <1>1 DEF FeesListed
<1>3. PICK bps : bps = PartsOf(fees) OBVIOUS
<1>4. \A k \in S : bps[k] \in Nat /\ share[k] = (x * bps[k]) \div FeeBasis
  BY <1>1, <1>2, <1>3 DEF PartsOf, ShareOf, SharesIn
<1>5. FeeBasis * Total(share, S) <= x * Total(bps, S) BY <1>2, <1>4, SharesScaled
<1>6. \A k \in S : share[k] \in Nat
  <2>1. ASSUME NEW k \in S PROVE share[k] \in Nat
    <3>1. PICK p \in Nat : p = x * bps[k] BY <1>4
    <3>2. share[k] = p \div 10000 BY <1>4, <3>1 DEF FeeBasis
    <3>. QED BY <3>1, <3>2
  <2>. QED BY <2>1
<1>7. PICK s \in Nat, b \in Nat : s = Total(share, S) /\ b = Total(bps, S)
  BY <1>2, <1>4, <1>6, TotalType
<1>8. b <= 10000 BY <1>1, <1>3, <1>7 DEF FeesListed, FeeBasis
<1>9. s <= x
  <2>1. 10000 * s <= x * b BY <1>5, <1>7 DEF FeeBasis
  <2>2. x * b <= x * 10000 BY <1>7, <1>8
  <2>3. PICK p \in Nat : p = x * b BY <1>7
  <2>. QED BY <1>7, <2>1, <2>2, <2>3
<1>10. PICK old : old = [a \in Account |-> GetOr(shares, a, 0)] OBVIOUS
<1>11. \A a \in Account : old[a] \in Nat BY <1>10 DEF SharesKept, GetOr
<1>12. IsFiniteSet(Account) BY DaoAssumption
<1>13. Total(old, Account) = Total(shares, DOMAIN shares)
  <2>1. CASE DOMAIN shares = {}
    <3>1. \A a \in Account : old[a] \in 0..0 BY <1>10, <2>1 DEF GetOr
    <3>2. Total(old, Account) \in Nat /\ Total(old, Account) <= 0 * Cardinality(Account)
      BY <1>12, <3>1, TotalBound
    <3>3. Cardinality(Account) \in Nat BY <1>12, FS_CardinalityType
    <3>4. Total(shares, {}) = 0 BY TotalNext, FS_EmptySet
    <3>. QED BY <2>1, <3>2, <3>3, <3>4
  <2>2. CASE DOMAIN shares = Account
    <3>1. \A a \in Account : old[a] = shares[a] BY <1>10, <2>2 DEF GetOr
    <3>2. Total(old, Account) = Total(shares, Account) BY <1>12, <3>1, TotalSame
    <3>. QED BY <2>2, <3>2
  <2>. QED BY <2>1, <2>2 DEF SharesKept
<1>14. K \subseteq S /\ IsFiniteSet(K) /\ \A k \in K : share[k] \in Nat
  BY <1>1, <1>2, <1>6, FS_Subset
<1>15. \A a \in Account : new[a] = old[a] + Total(share, Naming(fees, K, a))
  BY <1>10 DEF PaidOn
<1>16. PICK N : N = NamingAny(fees, K, Account) OBVIOUS
<1>17. /\ \A a \in Account : new[a] \in Nat
       /\ Total(new, Account) = Total(old, Account) + Total(share, N)
  <2>1. IsFiniteSet(K) /\ \A k \in K : share[k] \in Nat BY <1>14
  <2>. QED BY ONLY <1>11, <1>12, <1>15, <1>16, <2>1, SharesPaid
<1>18. N \subseteq S BY <1>14, <1>16 DEF NamingAny
<1>19. PICK t \in Nat : t = Total(share, N) /\ t <= s
  <2>1. IsFiniteSet(N) /\ \A k \in N : share[k] \in Nat BY <1>2, <1>6, <1>18, FS_Subset
  <2>2. Total(share, N) \in Nat BY <2>1, TotalType
  <2>3. Total(share, N) <= Total(share, S) BY <1>2, <1>6, <1>18, TotalPart
  <2>. QED BY <1>7, <2>2, <2>3
<1>20. PICK u \in Nat : u = Total(old, Account) BY <1>11, <1>12, TotalType
<1>21. u <= collected /\ collected \in Nat BY <1>13, <1>20 DEF SharesKept
<1>22. DOMAIN new = Account BY DEF PaidOn
<1>23. u + t <= collected + x BY <1>7, <1>9, <1>19, <1>20, <1>21
<1>24. Total(new, DOMAIN new) = u + t BY <1>17, <1>19, <1>20, <1>22
<1>25. \A a \in DOMAIN new : new[a] \in Nat BY <1>17, <1>22
<1>. QED BY <1>21, <1>22, <1>23, <1>24, <1>25 DEF SharesKept

LEMMA TreasuryStep ==
    ASSUME TreasuryInv, TreasuryNext
    PROVE  TreasuryInv'
<1>0. /\ DOMAIN treasury = TreasuryFields
      /\ treasury.signers \subseteq Account /\ treasury.required \in Nat
      /\ treasury.ready \/ DOMAIN treasury.allocations = {}
      /\ FeesListed(treasury.fees) /\ FundsKept(treasury.funds)
      /\ AllocationsKept(treasury.allocations, treasury.signers, treasury.approvals)
      /\ SharesKept(treasury.shares, treasury.collected)
  BY DEF TreasuryInv
<1>1. Amount \subseteq Nat BY PlatformAssumption
<1>2. ASSUME NEW s \in SUBSET Account, NEW n \in 0..2, initialize_treasury(s, n)
      PROVE  TreasuryInv'
  <2>1. /\ DOMAIN treasury' = TreasuryFields /\ treasury'.signers = s /\ treasury'.required = n
        /\ treasury'.fees = treasury.fees /\ treasury'.funds = treasury.funds
        /\ treasury'.allocations = treasury.allocations
        /\ treasury'.approvals = treasury.approvals
        /\ treasury'.shares = treasury.shares /\ treasury'.collected = treasury.collected
    BY <1>0, <1>2 DEF initialize_treasury, TreasuryFields
  <2>2. DOMAIN treasury.allocations = {} BY <1>0, <1>2 DEF initialize_treasury
  <2>3. AllocationsKept(treasury.allocations, s, treasury.approvals)
    BY <1>0, <2>2 DEF AllocationsKept
  <2>. QED BY <1>0, <2>1, <2>2, <2>3 DEF TreasuryInv
(* Only the funds change.                                                    *)
<1>3. ASSUME NEW funds, FundsKept(funds), treasury' = [treasury EXCEPT !.funds = funds]
      PROVE  TreasuryInv'
  <2>1. /\ DOMAIN treasury' = TreasuryFields /\ treasury'.signers = treasury.signers
        /\ treasury'.required = treasury.required /\ treasury'.ready = treasury.ready
        /\ treasury'.fees = treasury.fees /\ treasury'.funds = funds
        /\ treasury'.allocations = treasury.allocations
        /\ treasury'.approvals = treasury.approvals
        /\ treasury'.shares = treasury.shares /\ treasury'.collected = treasury.collected
    BY <1>0, <1>3 DEF TreasuryFields
  <2>. QED BY <1>0, <1>3, <2>1 DEF TreasuryInv
<1>4. ASSUME NEW n \in FundName, NEW limit \in Amount, create_fund(n, limit)
      PROVE  TreasuryInv'
  <2>1. PICK f : f = [balance |-> 0, budget_limit |-> limit, budget_used |-> 0] OBVIOUS
  <2>2. FundKept(f) BY <1>1, <2>1 DEF FundKept, FundFields
  <2>3. PICK funds : funds = Put(treasury.funds, n, f) OBVIOUS
  <2>4. FundsKept(funds) BY <1>0, <2>2, <2>3 DEF FundsKept, Put
  <2>5. treasury' = [treasury EXCEPT !.funds = funds] BY <1>4, <2>1, <2>3 DEF create_fund
  <2>. QED BY <1>3, <2>4, <2>5
<1>5. ASSUME NEW n \in FundName, NEW x \in Amount, deposit(n, x)
      PROVE  TreasuryInv'
  <2>1. n \in DOMAIN treasury.funds BY <1>5 DEF deposit
  <2>2. PICK o : o = treasury.funds[n] OBVIOUS
  <2>3. PICK f : f = [o EXCEPT !.balance = o.balance + x] OBVIOUS
  <2>4. FundKept(o) BY <1>0, <2>1, <2>2 DEF FundsKept
  <2>5. DOMAIN f = FundFields /\ f.budget_limit = o.budget_limit
        /\ f.budget_used = o.budget_used
    BY <2>3, <2>4 DEF FundKept, FundFields
  <2>6. FundKept(f) BY <2>4, <2>5 DEF FundKept
  <2>7. PICK funds : funds = [treasury.funds EXCEPT ![n] = f] OBVIOUS
  <2>8. FundsKept(funds) BY <1>0, <2>6, <2>7 DEF FundsKept
  <2>9. treasury' = [treasury EXCEPT !.funds = funds]
    BY <1>0, <1>5, <2>2, <2>3, <2>7 DEF deposit, TreasuryFields
  <2>. QED BY <1>3, <2>8, <2>9
<1>6. ASSUME NEW n \in FundName, NEW x \in Amount, request_allocation(n, x)
      PROVE  TreasuryInv'
  <2>1. PICK r : r = [fund |-> n, amount |-> x, approved |-> FALSE, approval_count |-> 0,
                      required_approvals |-> treasury.required, execution_ledger |-> 0]
    OBVIOUS
  <2>2. /\ DOMAIN r = AllocationFields /\ r.amount = x /\ r.approved = FALSE
        /\ r.approval_count = 0 /\ r.required_approvals = treasury.required
        /\ r.execution_ledger = 0
    BY <2>1 DEF AllocationFields
  <2>3. PICK als : als = Append(treasury.allocations, r) OBVIOUS
  <2>4. /\ DOMAIN treasury' = TreasuryFields /\ treasury'.signers = treasury.signers
        /\ treasury'.required = treasury.required /\ treasury'.ready = treasury.ready
        /\ treasury'.fees = treasury.fees /\ treasury'.funds = treasury.funds
        /\ treasury'.allocations = als /\ treasury'.approvals = treasury.approvals
        /\ treasury'.shares = treasury.shares /\ treasury'.collected = treasury.collected
    BY <1>0, <1>6, <2>1, <2>3 DEF request_allocation, TreasuryFields
  <2>5. PICK m \in Nat : m = Len(treasury.allocations) /\ DOMAIN treasury.allocations = 1..m
    BY <1>0, ListFacts DEF AllocationsKept
  <2>6. /\ IsList(als) /\ DOMAIN als = 1..(m + 1) /\ als[m + 1] = r
        /\ \A k \in 1..m : als[k] = treasury.allocations[k]
    BY <1>0, <2>3, <2>5, ListFacts DEF AllocationsKept
  <2>7. \A k : k \in 1..(m + 1) <=> k \in 1..m \/ k = m + 1 BY <2>5
  <2>8. ApproversOf(treasury.signers, treasury.approvals, m + 1) = {}
    <3>1. ~(m + 1 \in 1..m) BY <2>5
    <3>2. \A s : <<m + 1, s>> \notin treasury.approvals
      BY <1>0, <2>5, <3>1 DEF AllocationsKept
    <3>. QED BY <3>2 DEF ApproversOf
  <2>9. AllocationKept(r, {})
    BY <1>0, <1>1, <2>2, FS_EmptySet DEF AllocationKept
  <2>10. AllocationsKept(als, treasury.signers, treasury.approvals)
    <3>1. \A k, s : <<k, s>> \in treasury.approvals => k \in DOMAIN als
      BY <1>0, <2>5, <2>6, <2>7 DEF AllocationsKept
    <3>2. ASSUME NEW k \in DOMAIN als
          PROVE  AllocationKept(als[k], ApproversOf(treasury.signers, treasury.approvals, k))
      <4>1. CASE k = m + 1 BY <2>6, <2>8, <2>9, <4>1
      <4>2. CASE k \in 1..m BY <1>0, <2>5, <2>6, <4>2 DEF AllocationsKept
      <4>. QED BY <2>6, <2>7, <4>1, <4>2
    <3>. QED BY <2>6, <3>1, <3>2 DEF AllocationsKept
  <2>11. treasury.ready BY <1>6 DEF request_allocation
  <2>. QED BY <1>0, <2>4, <2>10, <2>11 DEF TreasuryInv
<1>7. ASSUME NEW a \in Account, NEW k \in DOMAIN treasury.allocations,
             approve_allocation(a, k)
      PROVE  TreasuryInv'
  <2>1. PICK o, signers, before, old :
          /\ o = treasury.allocations[k] /\ signers = treasury.signers
          /\ before = treasury.approvals /\ old = ApproversOf(signers, before, k)
    OBVIOUS
  <2>2. AllocationKept(o, old) BY <1>0, <2>1 DEF AllocationsKept
  <2>3. a \in signers /\ <<k, a>> \notin before BY <1>7, <2>1 DEF approve_allocation
  <2>4. PICK n \in Nat : n = o.approval_count
    BY <2>2, FS_CardinalityType DEF AllocationKept
  <2>5. PICK b \in BOOLEAN : b = (o.approved \/ n + 1 >= o.required_approvals)
    OBVIOUS
  <2>6. b => n + 1 >= o.required_approvals
    <3>1. o.approved => n >= o.required_approvals BY <2>2, <2>4 DEF AllocationKept
    <3>2. o.required_approvals \in Nat BY <2>2 DEF AllocationKept
    <3>3. b => (o.approved \/ n + 1 >= o.required_approvals) BY <2>5, Zenon
    <3>. QED BY <2>4, <3>1, <3>2, <3>3
  <2>7. PICK d : d = [o EXCEPT !.approval_count = n + 1, !.approved = b] OBVIOUS
  <2>8. /\ DOMAIN d = AllocationFields /\ d.amount = o.amount /\ d.approved = b
        /\ d.approval_count = n + 1 /\ d.required_approvals = o.required_approvals
        /\ d.execution_ledger = o.execution_ledger
    BY <2>2, <2>7 DEF AllocationKept, AllocationFields
  <2>9. PICK after, now : /\ after = before \cup {<<k, a>>}
                          /\ now = ApproversOf(signers, after, k)
    OBVIOUS
  <2>10. now = old \cup {a} /\ a \notin old BY <2>1, <2>3, <2>9 DEF ApproversOf
  <2>11. IsFiniteSet(now) /\ Cardinality(now) = n + 1
    BY <2>2, <2>4, <2>10, FS_AddElement DEF AllocationKept
  <2>12. o.approved => b BY <2>5
  <2>13. AllocationKept(d, now)
    BY <2>2, <2>4, <2>5, <2>6, <2>8, <2>11, <2>12 DEF AllocationKept
  <2>14. PICK als : als = [treasury.allocations EXCEPT ![k] = d] OBVIOUS
  <2>15. IsList(als) /\ DOMAIN als = DOMAIN treasury.allocations
    BY <1>0, <1>7, <2>14, ListFacts DEF AllocationsKept
  <2>16. AllocationsKept(als, signers, after)
    <3>1. \A i, s : <<i, s>> \in after => i \in DOMAIN als
      BY <1>0, <1>7, <2>1, <2>9, <2>15 DEF AllocationsKept
    <3>2. ASSUME NEW i \in DOMAIN als PROVE AllocationKept(als[i], ApproversOf(signers, after, i))
      <4>1. CASE i = k BY <1>7, <2>9, <2>13, <2>14, <4>1
      <4>2. CASE i # k
        <5>1. ApproversOf(signers, after, i) = ApproversOf(signers, before, i)
          BY <2>9, <4>2 DEF ApproversOf
        <5>2. als[i] = treasury.allocations[i] BY <2>14, <2>15, <4>2
        <5>. QED BY <1>0, <2>1, <2>15, <5>1, <5>2 DEF AllocationsKept
      <4>. QED BY <4>1, <4>2
    <3>. QED BY <2>15, <3>1, <3>2 DEF AllocationsKept
  <2>17. /\ DOMAIN treasury' = TreasuryFields /\ treasury'.signers = signers
         /\ treasury'.required = treasury.required /\ treasury'.ready = treasury.ready
         /\ treasury'.fees = treasury.fees /\ treasury'.funds = treasury.funds
         /\ treasury'.allocations = als /\ treasury'.approvals = after
         /\ treasury'.shares = treasury.shares /\ treasury'.collected = treasury.collected
    <3>1. treasury' = [treasury EXCEPT !.approvals = after,
                                       !.allocations[k].approval_count = n + 1,
                                       !.allocations[k].approved = b]
      BY <1>0, <1>7, <2>1, <2>4, <2>5, <2>9 DEF approve_allocation, TreasuryFields
    <3>. QED BY <1>0, <2>1, <2>7, <2>14, <3>1 DEF TreasuryFields
  <2>18. treasury.ready BY <1>0, <1>7
  <2>. QED BY <1>0, <2>1, <2>16, <2>17, <2>18 DEF TreasuryInv
<1>8. ASSUME NEW k \in DOMAIN treasury.allocations, execute_allocation(k)
      PROVE  TreasuryInv'
  <2>1. PICK o, name, x, old :
          /\ o = treasury.allocations[k] /\ name = o.fund /\ x = o.amount
          /\ old = ApproversOf(treasury.signers, treasury.approvals, k)
    OBVIOUS
  <2>2. AllocationKept(o, old) BY <1>0, <2>1 DEF AllocationsKept
  <2>3. PICK fund : fund = treasury.funds[name] OBVIOUS
  <2>4. /\ o.approved /\ name \in DOMAIN treasury.funds
        /\ x + fund.budget_used <= fund.budget_limit
    BY <1>8, <2>1, <2>3 DEF execute_allocation
  <2>5. FundKept(fund) BY <1>0, <2>3, <2>4 DEF FundsKept
  <2>6. x \in Nat BY <2>1, <2>2 DEF AllocationKept
  <2>7. PICK f : f = [fund EXCEPT !.balance = fund.balance - x,
                                  !.budget_used = fund.budget_used + x]
    OBVIOUS
  <2>8. /\ DOMAIN f = FundFields /\ f.budget_limit = fund.budget_limit
        /\ f.budget_used = fund.budget_used + x
    BY <2>5, <2>7 DEF FundKept, FundFields
  <2>9. FundKept(f) BY <2>4, <2>5, <2>6, <2>8 DEF FundKept
  <2>10. PICK d : d = [o EXCEPT !.execution_ledger = clock] OBVIOUS
  <2>11. /\ DOMAIN d = AllocationFields /\ d.amount = o.amount /\ d.approved = o.approved
         /\ d.approval_count = o.approval_count
         /\ d.required_approvals = o.required_approvals
    BY <2>2, <2>10 DEF AllocationKept, AllocationFields
  <2>12. AllocationKept(d, old) BY <2>2, <2>4, <2>11 DEF AllocationKept
  <2>13. PICK als, funds : /\ als = [treasury.allocations EXCEPT ![k] = d]
                           /\ funds = [treasury.funds EXCEPT ![name] = f]
    OBVIOUS
  <2>14. FundsKept(funds) BY <1>0, <2>9, <2>13 DEF FundsKept
  <2>15. IsList(als) /\ DOMAIN als = DOMAIN treasury.allocations
    BY <1>0, <1>8, <2>13, ListFacts DEF AllocationsKept
  <2>16. AllocationsKept(als, treasury.signers, treasury.approvals)
    <3>1. \A i, s : <<i, s>> \in treasury.approvals => i \in DOMAIN als
      BY <1>0, <2>15 DEF AllocationsKept
    <3>2. \A i \in DOMAIN als :
             AllocationKept(als[i], ApproversOf(treasury.signers, treasury.approvals, i))
      BY <1>0, <1>8, <2>1, <2>12, <2>13, <2>15 DEF AllocationsKept
    <3>. QED BY <2>15, <3>1, <3>2 DEF AllocationsKept
  <2>17. /\ DOMAIN treasury' = TreasuryFields /\ treasury'.signers = treasury.signers
         /\ treasury'.required = treasury.required /\ treasury'.ready = treasury.ready
         /\ treasury'.fees = treasury.fees /\ treasury'.funds = funds
         /\ treasury'.allocations = als /\ treasury'.approvals = treasury.approvals
         /\ treasury'.shares = treasury.shares /\ treasury'.collected = treasury.collected
    BY <1>0, <1>8, <2>1, <2>3, <2>4, <2>7, <2>10, <2>13 DEF execute_allocation, TreasuryFields
  <2>18. treasury.ready BY <1>0, <1>8
  <2>. QED BY <1>0, <2>14, <2>16, <2>17, <2>18 DEF TreasuryInv
<1>9. ASSUME NEW list, IsFiniteSet(DOMAIN list),
             \A k \in DOMAIN list : list[k].percentage_bps \in Nat,
             set_fee_distribution(list)
      PROVE  TreasuryInv'
  <2>1. Total(PartsOf(list), DOMAIN list) = FeeBasis
    BY <1>9 DEF set_fee_distribution, PartsOf
  <2>2. FeesListed(list) BY <1>9, <2>1 DEF FeesListed, FeeBasis
  <2>3. /\ DOMAIN treasury' = TreasuryFields /\ treasury'.signers = treasury.signers
        /\ treasury'.required = treasury.required /\ treasury'.ready = treasury.ready
        /\ treasury'.fees = list /\ treasury'.funds = treasury.funds
        /\ treasury'.allocations = treasury.allocations
        /\ treasury'.approvals = treasury.approvals
        /\ treasury'.shares = treasury.shares /\ treasury'.collected = treasury.collected
    BY <1>0, <1>9 DEF set_fee_distribution, TreasuryFields
  <2>. QED BY <1>0, <2>2, <2>3 DEF TreasuryInv
<1>10. ASSUME NEW x \in Amount, distribute_fees(x)
       PROVE  TreasuryInv'
  <2>. DEFINE fees == treasury.fees
              toFund == {k \in DOMAIN fees : fees[k].is_fund}
              share == [k \in DOMAIN fees |-> ShareOf(fees[k], x)]
              K == DOMAIN fees \ toFund
              funds == [n \in DOMAIN treasury.funds |->
                          IF n = ZeroName
                          THEN [treasury.funds[n] EXCEPT !.balance = @ + Total(share, toFund)]
                          ELSE treasury.funds[n]]
              new == [a \in Account |-> GetOr(treasury.shares, a, 0)
                                           + Total(share, {k \in K : fees[k].recipient = a})]
  <2>1. treasury' = [treasury EXCEPT !.funds = funds, !.shares = new,
                                     !.collected = treasury.collected + x]
    BY <1>10 DEF distribute_fees
  <2>2. funds = [n \in DOMAIN treasury.funds |->
                   IF n = ZeroName
                   THEN [treasury.funds[n] EXCEPT !.balance = @ + Total(share, toFund)]
                   ELSE treasury.funds[n]]
    OBVIOUS
  <2>3. /\ share = SharesIn(fees, x) /\ new = PaidOn(treasury.shares, share, fees, K)
        /\ fees = treasury.fees /\ K \in SUBSET DOMAIN fees
    BY DEF SharesIn, PaidOn, Naming
  <2>. HIDE DEF fees, toFund, share, K, funds, new
  <2>5. /\ DOMAIN treasury' = TreasuryFields /\ treasury'.signers = treasury.signers
        /\ treasury'.required = treasury.required /\ treasury'.ready = treasury.ready
        /\ treasury'.fees = fees /\ treasury'.funds = funds
        /\ treasury'.allocations = treasury.allocations
        /\ treasury'.approvals = treasury.approvals
        /\ treasury'.shares = new /\ treasury'.collected = treasury.collected + x
    BY <1>0, <2>1, <2>3 DEF TreasuryFields
  <2>6. FundsKept(funds)
    <3>1. ASSUME NEW n \in DOMAIN treasury.funds PROVE FundKept(funds[n])
      <4>1. PICK o : o = treasury.funds[n] OBVIOUS
      <4>2. FundKept(o) BY <1>0, <4>1 DEF FundsKept
      <4>3. PICK f : f = [o EXCEPT !.balance = @ + Total(share, toFund)] OBVIOUS
      <4>4. /\ DOMAIN f = FundFields /\ f.budget_limit = o.budget_limit
            /\ f.budget_used = o.budget_used
        BY <4>2, <4>3 DEF FundKept, FundFields
      <4>5. FundKept(f) BY <4>2, <4>4 DEF FundKept
      <4>6. funds[n] = f \/ funds[n] = o BY <2>2, <4>1, <4>3
      <4>. QED BY <4>2, <4>5, <4>6
    <3>2. DOMAIN funds = DOMAIN treasury.funds BY <2>2
    <3>. QED BY <3>1, <3>2 DEF FundsKept
  <2>7. K \in SUBSET DOMAIN fees /\ x \in Nat BY <1>1, <2>3
  <2>8. FeesListed(fees) BY <1>0, <2>3
  <2>9. SharesKept(new, treasury.collected + x)
    BY <1>0, <2>3, <2>7, <2>8, FeesHandedOut
  <2>. QED BY <1>0, <2>5, <2>6, <2>8, <2>9 DEF TreasuryInv
<1>11. ASSUME NEW list,
              \/ \E d \in FeeDistribution(FeeBasis) : list = <<d>>
              \/ \E d \in FeeDistribution(3333), e \in FeeDistribution(6667) : list = <<d, e>>,
              set_fee_distribution(list)
       PROVE  TreasuryInv'
  <2>1. /\ \A d \in FeeDistribution(FeeBasis) : d.percentage_bps \in Nat
        /\ \A d \in FeeDistribution(3333) : d.percentage_bps \in Nat
        /\ \A d \in FeeDistribution(6667) : d.percentage_bps \in Nat
    BY PartNamed DEF FeeBasis
  <2>2. PICK d, e : /\ d.percentage_bps \in Nat /\ e.percentage_bps \in Nat
                    /\ list = <<d>> \/ list = <<d, e>>
    BY <1>11, <2>1
  <2>3. list \in {<<d>>, <<d, e>>} BY <2>2
  <2>4. /\ IsFiniteSet(DOMAIN list)
        /\ \A k \in DOMAIN list : list[k].percentage_bps \in Nat
    BY ONLY <2>2, <2>3, ListsOfParts
  <2>. QED BY <1>9, <1>11, <2>4
<1>12. CASE \E s \in SUBSET Account \ {{}}, n \in 0..2 : initialize_treasury(s, n)
  BY <1>2, <1>12
<1>13. CASE \E d \in FeeDistribution(FeeBasis) : set_fee_distribution(<<d>>)
  BY <1>11, <1>13
<1>14. CASE \E d \in FeeDistribution(3333), e \in FeeDistribution(6667) :
              set_fee_distribution(<<d, e>>)
  BY <1>11, <1>14
<1>. QED BY <1>4, <1>5, <1>6, <1>7, <1>8, <1>10, <1>12, <1>13, <1>14, SMTT(30) DEF TreasuryNext

LEMMA TreasuryBegins ==
    ASSUME TreasuryInit
    PROVE  TreasuryInv
<1>1. /\ DOMAIN treasury = TreasuryFields /\ treasury.signers = {} /\ treasury.required = 0
      /\ treasury.fees = <<>> /\ treasury.funds = EmptyMap /\ treasury.allocations = <<>>
      /\ treasury.approvals = {} /\ treasury.shares = EmptyMap /\ treasury.collected = 0
  BY DEF TreasuryInit, TreasuryFields
<1>2. DOMAIN EmptyMap = {} /\ IsList(<<>>) /\ DOMAIN (<<>>) = {} BY EmptyList DEF EmptyMap
<1>3. \A f : Total(f, {}) = 0 BY TotalNext, FS_EmptySet
<1>4. FeesListed(<<>>) BY <1>2, <1>3, FS_EmptySet DEF FeesListed, FeeBasis
<1>5. SharesKept(EmptyMap, 0) BY <1>2, <1>3 DEF SharesKept
<1>6. AllocationsKept(<<>>, {}, {}) BY <1>2 DEF AllocationsKept
<1>7. FundsKept(EmptyMap) BY <1>2 DEF FundsKept
<1>. QED BY <1>1, <1>2, <1>4, <1>5, <1>6, <1>7 DEF TreasuryInv

LEMMA TreasuryInvAccounts ==
    ASSUME TreasuryInv
    PROVE  SpendingApproved /\ FeesCovered
<1>1. \A n \in DOMAIN treasury.funds :
         treasury.funds[n].budget_used <= treasury.funds[n].budget_limit
  BY DEF TreasuryInv, FundsKept, FundKept
<1>2. ASSUME NEW k \in DOMAIN treasury.allocations,
             treasury.allocations[k].execution_ledger > 0
      PROVE  Cardinality({s \in treasury.signers : <<k, s>> \in treasury.approvals})
                 >= treasury.allocations[k].required_approvals
  <2>1. PICK o, who : /\ o = treasury.allocations[k]
                      /\ who = ApproversOf(treasury.signers, treasury.approvals, k)
    OBVIOUS
  <2>2. AllocationKept(o, who) BY <2>1 DEF TreasuryInv, AllocationsKept
  <2>3. Cardinality(who) >= o.required_approvals BY <1>2, <2>1, <2>2 DEF AllocationKept
  <2>. QED BY <2>1, <2>3 DEF ApproversOf
<1>3. FeesCovered
  <2>1. PICK f, S : /\ S = DOMAIN treasury.shares
                    /\ f = [a \in DOMAIN treasury.shares |-> treasury.shares[a]]
    OBVIOUS
  <2>2. SharesKept(treasury.shares, treasury.collected) BY DEF TreasuryInv
  <2>3. IsFiniteSet(S) BY <2>1, <2>2, FS_EmptySet, DaoAssumption DEF SharesKept
  <2>4. \A a \in S : f[a] = treasury.shares[a] BY <2>1
  <2>5. Total(f, S) = Total(treasury.shares, S) BY <2>3, <2>4, TotalSame
  <2>6. Total(f, S) <= treasury.collected BY <2>1, <2>2, <2>5 DEF SharesKept
  <2>. QED BY <2>1, <2>6 DEF FeesCovered
<1>. QED BY <1>1, <1>2, <1>3 DEF SpendingApproved

-----------------------------------------------------------------------------
(* Collective money: the jury.                                               *)

JuryFields == {"config", "disputes", "assignments", "slashed", "appeals"}
DisputeFields ==
    {"plaintiff", "defendant", "status", "jurors", "tally", "votes_cast", "outcome",
     "stake_amount", "evidence_deadline", "voting_deadline"}

(* No ballot is cast after a verdict: the voting deadline is over, and it is *)
(* only moved while a dispute is filed, which a reopened one is not.         *)
DisputeKept(d) ==
    /\ DOMAIN d = DisputeFields
    /\ d.voting_deadline \in Nat
    /\ \/ d.outcome = None
       \/ /\ d.outcome = Some(Verdict(d.tally))
          /\ clock > d.voting_deadline
          /\ d.status # "Filed"

JuryInv ==
    /\ DOMAIN jury = JuryFields
    /\ \/ jury.config = None /\ DOMAIN jury.disputes = {}
       \/ \E c \in DisputeConfig : jury.config = Some(c)
    /\ IsList(jury.disputes)
    /\ \A k \in DOMAIN jury.disputes : DisputeKept(jury.disputes[k])

LEMMA JuryStep ==
    ASSUME JuryInv, JuryNext, clock \in Nat, clock' = clock
    PROVE  JuryInv'
<1>0. /\ DOMAIN jury = JuryFields /\ IsList(jury.disputes)
      /\ \/ jury.config = None /\ DOMAIN jury.disputes = {}
         \/ \E c \in DisputeConfig : jury.config = Some(c)
      /\ \A k \in DOMAIN jury.disputes : DisputeKept(jury.disputes[k])
  BY DEF JuryInv
<1>1. \A d : DisputeKept(d) <=> DisputeKept(d)' BY DEF DisputeKept
<1>2. \A c \in DisputeConfig : /\ The(Some(c)) = c
                               /\ c.evidence_period \in Nat /\ c.voting_period \in Nat
  BY DEF The, Some, DisputeConfig
<1>3. ASSUME NEW c \in DisputeConfig, initialize_disputes(c)
      PROVE  JuryInv'
  <2>1. /\ DOMAIN jury' = JuryFields /\ jury'.config = Some(c)
        /\ jury'.disputes = jury.disputes
    BY <1>0, <1>3 DEF initialize_disputes, JuryFields
  <2>. QED BY <1>0, <1>1, <2>1 DEF JuryInv
(* One dispute is rewritten.                                                 *)
<1>4. ASSUME NEW k \in DOMAIN jury.disputes, NEW d, DisputeKept(d),
             DOMAIN jury' = JuryFields, jury'.config = jury.config,
             jury'.disputes = [jury.disputes EXCEPT ![k] = d]
      PROVE  JuryInv'
  <2>1. PICK ds : ds = [jury.disputes EXCEPT ![k] = d] OBVIOUS
  <2>2. IsList(ds) /\ DOMAIN ds = DOMAIN jury.disputes BY <1>0, <1>4, <2>1, ListFacts
  <2>3. \A n \in DOMAIN ds : DisputeKept(ds[n]) BY <1>0, <1>4, <2>1
  <2>4. jury'.disputes = ds BY <1>4, <2>1
  <2>. QED BY <1>0, <1>1, <1>4, <2>2, <2>3, <2>4 DEF JuryInv
<1>5. ASSUME NEW a \in Account, NEW b \in Account, NEW x \in Amount, file_dispute(a, b, x)
      PROVE  JuryInv'
  <2>1. PICK c \in DisputeConfig : jury.config = Some(c) BY <1>0, <1>5 DEF file_dispute
  <2>2. PICK d : d = [plaintiff |-> a, defendant |-> b, status |-> "Filed",
                      jurors |-> <<>>, tally |-> [o \in DisputeOutcome |-> 0],
                      votes_cast |-> 0, outcome |-> None, stake_amount |-> x,
                      evidence_deadline |-> clock + The(jury.config).evidence_period,
                      voting_deadline |-> 0]
    OBVIOUS
  <2>3. DOMAIN d = DisputeFields /\ d.outcome = None /\ d.voting_deadline = 0
    BY <2>2 DEF DisputeFields
  <2>4. DisputeKept(d) BY <2>3 DEF DisputeKept
  <2>5. PICK ds : ds = Append(jury.disputes, d) OBVIOUS
  <2>6. /\ DOMAIN jury' = JuryFields /\ jury'.config = jury.config /\ jury'.disputes = ds
    BY <1>0, <1>5, <2>2, <2>5 DEF file_dispute, JuryFields
  <2>7. PICK n \in Nat : n = Len(jury.disputes) /\ DOMAIN jury.disputes = 1..n
    BY <1>0, ListFacts
  <2>8. /\ IsList(ds) /\ DOMAIN ds = 1..(n + 1) /\ ds[n + 1] = d
        /\ \A k \in 1..n : ds[k] = jury.disputes[k]
    BY <1>0, <2>5, <2>7, ListFacts
  <2>9. \A k : k \in 1..(n + 1) <=> k \in 1..n \/ k = n + 1 BY <2>7
  <2>10. \A k \in DOMAIN ds : DisputeKept(ds[k]) BY <1>0, <2>4, <2>7, <2>8, <2>9
  <2>. QED BY <1>0, <1>1, <2>1, <2>6, <2>8, <2>10 DEF JuryInv
<1>6. ASSUME NEW k \in DOMAIN jury.disputes, NEW a \in Account, submit_evidence(k, a)
      PROVE  JuryInv'
  <2>1. PICK o : o = jury.disputes[k] OBVIOUS
  <2>2. PICK c \in DisputeConfig : jury.config = Some(c) BY <1>0, <1>6
  <2>3. PICK t \in Nat : t = clock + The(jury.config).voting_period BY <1>2, <2>2
  <2>4. DisputeKept(o) /\ o.status = "Filed" BY <1>0, <1>6, <2>1 DEF submit_evidence
  <2>5. PICK d : d = [o EXCEPT !.status = "EvidenceSubmitted", !.voting_deadline = t] OBVIOUS
  <2>6. DOMAIN d = DisputeFields /\ d.voting_deadline = t /\ d.outcome = o.outcome
    BY <2>4, <2>5 DEF DisputeKept, DisputeFields
  <2>7. DisputeKept(d) BY <2>4, <2>6 DEF DisputeKept
  <2>8. /\ DOMAIN jury' = JuryFields /\ jury'.config = jury.config
        /\ jury'.disputes = [jury.disputes EXCEPT ![k] = d]
    BY <1>0, <1>6, <2>1, <2>3, <2>5 DEF submit_evidence, JuryFields
  <2>. QED BY <1>4, <2>7, <2>8
<1>7. ASSUME NEW k \in DOMAIN jury.disputes, NEW js, assign_jurors(k, js)
      PROVE  JuryInv'
  <2>1. PICK o : o = jury.disputes[k] OBVIOUS
  <2>2. DisputeKept(o) BY <1>0, <2>1
  <2>3. PICK d : d = [o EXCEPT !.jurors = js, !.status = "Voting"] OBVIOUS
  <2>4. /\ DOMAIN d = DisputeFields /\ d.status = "Voting" /\ d.outcome = o.outcome
        /\ d.tally = o.tally /\ d.voting_deadline = o.voting_deadline
    BY <2>2, <2>3 DEF DisputeKept, DisputeFields
  <2>5. DisputeKept(d) BY <2>2, <2>4 DEF DisputeKept
  <2>6. PICK m : jury' = [jury EXCEPT !.assignments = m, !.disputes[k].jurors = js,
                                      !.disputes[k].status = "Voting"]
    BY <1>7 DEF assign_jurors
  <2>7. /\ DOMAIN jury' = JuryFields /\ jury'.config = jury.config
        /\ jury'.disputes = [jury.disputes EXCEPT ![k] = d]
    BY <1>0, <2>1, <2>3, <2>6 DEF JuryFields
  <2>. QED BY <1>4, <2>5, <2>7
<1>8. ASSUME NEW k \in DOMAIN jury.disputes, NEW a \in Account, NEW v \in DisputeOutcome,
             cast_juror_vote(a, k, v)
      PROVE  JuryInv'
  <2>1. PICK o : o = jury.disputes[k] OBVIOUS
  <2>2. DisputeKept(o) /\ clock <= o.voting_deadline
    BY <1>0, <1>8, <2>1 DEF cast_juror_vote
  <2>3. o.outcome = None BY <2>2 DEF DisputeKept
  <2>4. PICK t, n : t = [o.tally EXCEPT ![v] = @ + 1] /\ n = o.votes_cast + 1 OBVIOUS
  <2>5. PICK d : d = [o EXCEPT !.tally = t, !.votes_cast = n] OBVIOUS
  <2>6. /\ DOMAIN d = DisputeFields /\ d.outcome = None
        /\ d.voting_deadline = o.voting_deadline
    BY <2>2, <2>3, <2>5 DEF DisputeKept, DisputeFields
  <2>7. DisputeKept(d) BY <2>2, <2>6 DEF DisputeKept
  <2>8. /\ DOMAIN jury' = JuryFields /\ jury'.config = jury.config
        /\ jury'.disputes = [jury.disputes EXCEPT ![k] = d]
    BY <1>0, <1>8, <2>1, <2>4, <2>5 DEF cast_juror_vote, JuryFields
  <2>. QED BY <1>4, <2>7, <2>8
<1>9. ASSUME NEW k \in DOMAIN jury.disputes, finalize_dispute(k)
      PROVE  JuryInv'
  <2>1. PICK o : o = jury.disputes[k] OBVIOUS
  <2>2. DisputeKept(o) /\ clock > o.voting_deadline
    BY <1>0, <1>9, <2>1 DEF finalize_dispute
  <2>3. PICK w : w = Verdict(o.tally) OBVIOUS
  <2>4. PICK d : d = [o EXCEPT !.outcome = Some(w), !.status = "Decided"] OBVIOUS
  <2>5. /\ DOMAIN d = DisputeFields /\ d.outcome = Some(w) /\ d.tally = o.tally
        /\ d.status = "Decided" /\ d.voting_deadline = o.voting_deadline
    BY <2>2, <2>4 DEF DisputeKept, DisputeFields
  <2>6. DisputeKept(d) BY <2>2, <2>3, <2>5 DEF DisputeKept
  <2>7. PICK s : jury' = [jury EXCEPT !.disputes[k].outcome = Some(w),
                                      !.disputes[k].status = "Decided", !.slashed = s]
    BY <1>9, <2>1, <2>3 DEF finalize_dispute
  <2>8. /\ DOMAIN jury' = JuryFields /\ jury'.config = jury.config
        /\ jury'.disputes = [jury.disputes EXCEPT ![k] = d]
    BY <1>0, <2>1, <2>4, <2>7 DEF JuryFields
  <2>. QED BY <1>4, <2>6, <2>8
<1>10. ASSUME NEW k \in DOMAIN jury.disputes, NEW a \in Account, file_appeal(k, a)
       PROVE  JuryInv'
  <2>1. /\ DOMAIN jury' = JuryFields /\ jury'.config = jury.config
        /\ jury'.disputes = jury.disputes
    BY <1>0, <1>10 DEF file_appeal, JuryFields
  <2>. QED BY <1>0, <1>1, <2>1 DEF JuryInv
<1>. QED BY <1>3, <1>5, <1>6, <1>7, <1>8, <1>9, <1>10 DEF JuryNext

LEMMA JuryAges ==
    ASSUME JuryInv, jury' = jury, clock \in Nat, clock' \in Nat, clock <= clock'
    PROVE  JuryInv'
<1>1. ASSUME NEW d, DisputeKept(d)
      PROVE  DisputeKept(d)'
  <2>1. PICK e \in Nat : e = d.voting_deadline BY <1>1 DEF DisputeKept
  <2>2. clock > e => clock' > e BY <2>1
  <2>. QED BY <1>1, <2>1, <2>2 DEF DisputeKept
<1>. QED BY <1>1 DEF JuryInv

LEMMA JuryBegins ==
    ASSUME JuryInit
    PROVE  JuryInv
<1>1. DOMAIN jury = JuryFields /\ jury.config = None /\ jury.disputes = <<>>
  BY DEF JuryInit, JuryFields
<1>2. IsList(<<>>) /\ DOMAIN (<<>>) = {} BY EmptyList
<1>. QED BY <1>1, <1>2 DEF JuryInv

LEMMA JuryInvStands ==
    ASSUME JuryInv
    PROVE  VerdictsStand
<1>1. ASSUME NEW k \in DOMAIN jury.disputes, jury.disputes[k].outcome # None
      PROVE  The(jury.disputes[k].outcome) = Verdict(jury.disputes[k].tally)
  <2>1. PICK d : d = jury.disputes[k] OBVIOUS
  <2>2. PICK w : w = Verdict(d.tally) OBVIOUS
  <2>3. d.outcome = Some(w) BY <1>1, <2>1, <2>2 DEF JuryInv, DisputeKept
  <2>4. The(Some(w)) = w BY DEF The, Some
  <2>. QED BY <2>1, <2>2, <2>3, <2>4
<1>. QED BY <1>1 DEF VerdictsStand

LEMMA DaoInvAccounts ==
    ASSUME DaoInv
    PROVE  TalliesRecorded /\ DelegationsCovered /\ ExecutedWithMajority
<1>1. TalliesRecorded
  BY DEF DaoInv, VotesKept, TalliesRecorded, PowersIn, VotesFor
<1>2. DelegationsCovered
  BY DEF DaoInv, PowersKept, Covered, DelegationsCovered, Bases, DelegatorsOf
<1>3. ExecutedWithMajority BY DEF DaoInv, ProposalKept, ExecutedWithMajority
<1>. QED BY <1>1, <1>2, <1>3

(* In every behaviour of the platform the DAO stays accountable: a tally is  *)
(* the power of the votes recorded, a delegation taken back never            *)
(* underflows, an executed proposal keeps its majority, no fund is spent     *)
(* beyond its budget or without its approvals, the shares handed out are     *)
(* covered by the fees collected, and a verdict agrees with its ballots      *)
(* although a dispute may be reopened (dao_governance.rs, dao_treasury.rs,   *)
(* dao_dispute_resolution.rs).                                               *)
THEOREM DaoStaysAccountable == PlatformSpec => []DaoAccountable
<1>. DEFINE Inv == clock \in Nat /\ DaoInv /\ TreasuryInv /\ JuryInv
<1>1. PlatformInit => Inv
  BY DaoBegins, TreasuryBegins, JuryBegins DEF PlatformInit
<1>2. Inv /\ [PlatformNext]_platformVars => Inv'
  <2>. SUFFICES ASSUME Inv, [PlatformNext]_platformVars PROVE Inv' OBVIOUS
  <2>1. /\ dao' = dao \/ (DaoNext /\ clock' = clock)
        /\ treasury' = treasury \/ TreasuryNext
        /\ jury' = jury \/ (JuryNext /\ clock' = clock)
        /\ clock' \in Nat /\ clock <= clock'
    BY CollectiveSteps
  <2>2. DaoInv' BY <2>1, DaoStep, DaoAges
  <2>3. TreasuryInv'
    <3>1. CASE treasury' = treasury BY <3>1 DEF TreasuryInv
    <3>. QED BY <2>1, <3>1, TreasuryStep
  <2>4. JuryInv' BY <2>1, JuryStep, JuryAges
  <2>. QED BY <2>1, <2>2, <2>3, <2>4
<1>3. Inv => DaoAccountable
  BY DaoInvAccounts, TreasuryInvAccounts, JuryInvStands DEF DaoAccountable
<1>. QED BY <1>1, <1>2, <1>3, PTL DEF PlatformSpec
=============================================================================
