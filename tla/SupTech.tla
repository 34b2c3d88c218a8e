------------------------------- MODULE SupTech ------------------------------
(* Supervision of institutions (src/src/suptech_types.rs): data feeds        *)
(* (suptech_feeds.rs), supervisors, alerts and rules (suptech_api.rs,        *)
(* suptech_rules.rs), supervisory reports (suptech_reporting.rs) and the     *)
(* transmissions to central bodies (suptech_integration.rs).                 *)
EXTENDS PlatformHost

CONSTANTS
    Frequency,   \* seconds between the updates of a feed
    Severity,    \* severities that rules and subscriptions use
    AckTimeout,  \* after which an acknowledgment is overdue
    MaxSupervisors \* 1000 in the configuration

ASSUME SupTechAssumption ==
    /\ Severity \subseteq Nat
    /\ {Frequency, AckTimeout, MaxSupervisors} \subseteq Nat

VARIABLES
    feeds,        \* one feed with its published points and subscriptions
    supervision,  \* supervisors, rules, the rule set, alerts, subscriptions
    filing,       \* one supervisory report with the results it was given
    wire          \* an endpoint and a transmission

RegulatoryFramework == {"BIS", "FSB", "ECB", "FED", "PBOC", "BoE", "BoJ", "NationalRegulator"}
DataFeedType ==
    {"TransactionStream", "BalanceSnapshot", "LiquidityMetrics", "RiskMetrics", "MarketData",
     "ComplianceAlerts", "CounterpartyExposure", "StressTestResults"}
ReportingStandard == {"BCBS239", "SCOMP", "COREP", "FINREP", "SREP", "CVAR", "AMLCFT"}
SupervisorRole == {"Observer", "Analyst", "Administrator", "SuperAdministrator"}
AlertStatus == {"New", "InvestigationOngoing", "Resolved", "Escalated", "Dismissed"}
can_query(role) == role # "Observer"
can_manage_rules(role) == role \in {"Administrator", "SuperAdministrator"}
can_override(role) == role = "SuperAdministrator"

-----------------------------------------------------------------------------
(* Feeds.                                                                    *)
FeedsInit == feeds = [feed |-> None, points |-> <<>>, subscriptions |-> EmptyMap]

compute_data_hash(data, time) == <<data, time>>
is_data_fresh(feed) == clock - feed.updated <= Frequency
get_feed_update_lag(feed) == Max({clock - feed.updated - Frequency, 0})

(* Subscribing does not count the subscriber, so a feed has none for ever.   *)
compute_data_quality_score(feed, healthy) ==
    LET age == IF is_data_fresh(feed) THEN 0 ELSE 20
        crowd == IF feed.subscribers = 0 THEN 15 ELSE IF feed.subscribers < healthy THEN 10 ELSE 0
        off == IF feed.active THEN 0 ELSE 50
    IN  100 - age - crowd - off

create_feed(type, data) ==
    /\ feeds.feed = None
    /\ feeds' = [feeds EXCEPT !.feed =
          Some([id |-> <<type, clock>>, data |-> data, updated |-> clock,
                subscribers |-> 0, active |-> TRUE])]

publish_data_point(data) ==
    \E feed \in feeds.feed :
        /\ Len(feeds.points) < MaxRecords
        /\ feed.active
        /\ feeds' = [feeds EXCEPT
              !.points = Append(@, [time |-> clock, hash |-> compute_data_hash(data, clock),
                                    active |-> feed.active]),
              !.feed = Some([feed EXCEPT !.data = data, !.updated = clock])]

create_subscription(who) ==
    /\ feeds.feed # None /\ who \notin DOMAIN feeds.subscriptions
    /\ feeds' = [feeds EXCEPT !.subscriptions =
          Put(@, who, [received |-> None, count |-> 0])]

record_data_receipt(who) ==
    /\ feeds.subscriptions[who].count < Len(feeds.points)
    /\ feeds' = [feeds EXCEPT !.subscriptions[who] =
          [received |-> Some(feeds.points[feeds.subscriptions[who].count + 1].time),
           count |-> @.count + 1]]

deactivate_feed ==
    \E feed \in feeds.feed :
        feed.active /\ feeds' = [feeds EXCEPT !.feed = Some([feed EXCEPT !.active = FALSE])]

(* The data becomes fresh again without new data.                            *)
reactivate_feed ==
    \E feed \in feeds.feed :
        feeds' = [feeds EXCEPT !.feed = Some([feed EXCEPT !.active = TRUE, !.updated = clock])]

FeedsNext ==
    \/ \E type \in {"MarketData"}, data \in Label : create_feed(type, data)
    \/ \E data \in Label : publish_data_point(data)
    \/ \E who \in Account : create_subscription(who)
    \/ \E who \in DOMAIN feeds.subscriptions : record_data_receipt(who)
    \/ deactivate_feed \/ reactivate_feed

-----------------------------------------------------------------------------
(* Supervisors, rules and alerts.                                            *)
SupervisionInit ==
    supervision = [supervisors |-> EmptyMap, rules |-> EmptyMap, ruleset |-> <<>>,
                   alerts |-> <<>>, thresholds |-> EmptyMap, delivered |-> {}]

compute_rule_id(framework, name) == <<framework, name>>
compute_alert_id(rule, institution) == <<rule, institution, clock>>

register_supervisor(who, role) ==
    /\ who \notin DOMAIN supervision.supervisors
    /\ Cardinality(DOMAIN supervision.supervisors) < MaxSupervisors
    /\ supervision' = [supervision EXCEPT
          !.supervisors = Put(@, who, [role |-> role, active |-> TRUE])]
SetSupervisorActive(who, active) ==
    /\ supervision.supervisors[who].active # active
    /\ supervision' = [supervision EXCEPT !.supervisors[who].active = active]

check_permission(who, operation) ==
    /\ who \in DOMAIN supervision.supervisors /\ supervision.supervisors[who].active
    /\ LET role == supervision.supervisors[who].role
       IN  CASE operation = "read_data"     -> TRUE
             [] operation = "query_system"  -> can_query(role)
             [] operation = "manage_rules"  -> can_manage_rules(role)
             [] operation = "override_rule" -> can_override(role)

(* Rules with the same framework and name are the same rule.                 *)
create_rule(framework, name, severity) ==
    /\ severity <= 10
    /\ supervision' = [supervision EXCEPT !.rules = Put(@, compute_rule_id(framework, name),
          [severity |-> severity, active |-> TRUE, condition |-> "initial"])]
update_rule_condition(rule) ==
    supervision' = [supervision EXCEPT !.rules[rule].condition = "updated"]
disable_rule(rule) == supervision' = [supervision EXCEPT !.rules[rule].active = FALSE]
enable_rule(rule) == supervision' = [supervision EXCEPT !.rules[rule].active = TRUE]

add_rule_to_set(rule) ==
    /\ Len(supervision.ruleset) < MaxRecords
    /\ rule \notin ToSet(supervision.ruleset)
    /\ supervision' = [supervision EXCEPT !.ruleset = Append(@, rule)]

(* Finding the rule is all that removing it does.                            *)
remove_rule_from_set(rule) == rule \in ToSet(supervision.ruleset) /\ UNCHANGED supervision

evaluate_rule(rule, context) ==
    [rule |-> rule, met |-> context # {}, severity |-> supervision.rules[rule].severity]

execute_ruleset(context) ==
    {evaluate_rule(rule, context) : rule \in {r \in DOMAIN supervision.rules :
        supervision.rules[r].active /\ r \in ToSet(supervision.ruleset)}}

(* Every rule that is met raises an alert.                                   *)
generate_alert_from_rule(rule, institution) ==
    /\ Len(supervision.alerts) < MaxRecords
    /\ \E evaluation \in execute_ruleset({"context"}) : evaluation.rule = rule /\ evaluation.met
    /\ supervision' = [supervision EXCEPT !.alerts =
          Append(@, [id |-> compute_alert_id(rule, institution), rule |-> rule,
                     severity |-> supervision.rules[rule].severity, status |-> "New"])]

subscribe_to_alerts(who, threshold) ==
    /\ threshold <= 10
    /\ supervision' = [supervision EXCEPT !.thresholds = Put(@, who, threshold)]

(* The category filters are not applied.                                     *)
should_deliver_alert(alert, threshold) == alert.severity >= threshold

record_alert_delivery(who, k) ==
    /\ should_deliver_alert(supervision.alerts[k], supervision.thresholds[who])
    /\ supervision' = [supervision EXCEPT
          !.delivered = @ \cup {<<who, k, supervision.thresholds[who]>>}]

SupervisionNext ==
    \/ \E who \in Account : \E role \in SupervisorRole : register_supervisor(who, role)
    \/ \E who \in DOMAIN supervision.supervisors, active \in BOOLEAN :
          SetSupervisorActive(who, active)
    \/ \E who \in DOMAIN supervision.supervisors :
          /\ check_permission(who, "manage_rules")
          /\ \/ \E framework \in {"BIS"}, name \in Label, severity \in Severity :
                   create_rule(framework, name, severity)
             \/ \E rule \in DOMAIN supervision.rules :
                   \/ update_rule_condition(rule) \/ disable_rule(rule) \/ enable_rule(rule)
                   \/ add_rule_to_set(rule) \/ remove_rule_from_set(rule)
                   \/ generate_alert_from_rule(rule, "institution")
    \/ \E who \in DOMAIN supervision.supervisors, threshold \in Severity :
          check_permission(who, "read_data") /\ subscribe_to_alerts(who, threshold)
    \/ \E who \in DOMAIN supervision.thresholds, k \in DOMAIN supervision.alerts :
          record_alert_delivery(who, k)

-----------------------------------------------------------------------------
(* Supervisory reports.                                                      *)
FilingInit ==
    filing = [report |-> None, results |-> <<>>, total |-> 0, accepted |-> 0, rate |-> 100]

LeastData ==
    [standard \in ReportingStandard |->
        CASE standard = "BCBS239" -> 100 [] standard = "COREP" -> 50 [] standard = "FINREP" -> 75
          [] standard = "SREP" -> 60 [] standard = "AMLCFT" -> 40 [] OTHER -> 1]
validate_report_format(report, standard) ==
    report.standard = standard /\ report.size >= LeastData[standard]

compute_data_completeness(report) ==
    CASE report.size < 40 -> 0
      [] report.size >= 10000 -> 100
      [] OTHER -> ((report.size - 40) * 100) \div 9960

(* The identifier leaves the standard out.                                   *)
create_report(standard, who, start, end, size) ==
    /\ filing.report = None
    /\ size > 0 /\ start < end
    /\ filing' = [filing EXCEPT
          !.report = Some([id |-> <<who, start, end>>, standard |-> standard, size |-> size,
                           status |-> "Pending", validated_at |-> None]),
          !.total = @ + 1]

compute_compliance_rate(accepted, total) ==
    IF total = 0 THEN 100 ELSE (accepted * 100) \div total

Given(report, status) ==
    filing' = [filing EXCEPT
        !.report = Some([report EXCEPT !.status = status, !.validated_at = Some(clock)]),
        !.results = Append(@, [status |-> status, time |-> clock]),
        !.accepted = IF status = "Accepted" THEN @ + 1 ELSE @,
        !.rate = compute_compliance_rate(
                    filing.accepted + (IF status = "Accepted" THEN 1 ELSE 0), filing.total)]

accept_report ==
    \E report \in filing.report :
        /\ report.status = "Pending"
        /\ validate_report_format(report, report.standard)
        /\ Given(report, "Accepted")

(* The other results are given in any state, after acceptance too.           *)
request_corrections == \E report \in filing.report : Given(report, "RequiresCorrections")
flag_report == \E report \in filing.report : Given(report, "Flagged")
reject_report == \E report \in filing.report : Given(report, "Rejected")

FilingNext ==
    \/ \E standard \in ReportingStandard, who \in Account, end \in 1..2,
          size \in {0, 39, 40, 100, 10000} : create_report(standard, who, 1, end, size)
    \/ /\ Len(filing.results) < MaxRecords
       /\ accept_report \/ request_corrections \/ flag_report \/ reject_report

-----------------------------------------------------------------------------
(* Transmissions.                                                            *)
WireInit == wire = [endpoint |-> None, transmission |-> None, acks |-> 0]

register_endpoint(framework) ==
    /\ wire.endpoint = None
    /\ wire' = [wire EXCEPT !.endpoint =
          Some([framework |-> framework, last_sync |-> 0, status |-> "Connected"])]
sync_endpoint ==
    \E endpoint \in wire.endpoint :
        wire' = [wire EXCEPT !.endpoint = Some([endpoint EXCEPT !.last_sync = clock,
                                                                !.status = "Connected"])]
endpoint_error ==
    \E endpoint \in wire.endpoint :
        wire' = [wire EXCEPT !.endpoint = Some([endpoint EXCEPT !.status = "Error"])]
is_endpoint_healthy(endpoint) ==
    endpoint.status = "Connected" /\ clock - endpoint.last_sync < 2 * Frequency

create_transmission(source, destination) ==
    /\ wire.transmission = None
    /\ wire' = [wire EXCEPT !.transmission =
          Some([id |-> <<source, destination, clock>>, sent |-> clock,
                acknowledged_at |-> None, status |-> "Transmitted"])]

acknowledge_transmission ==
    \E t \in wire.transmission :
        /\ t.status = "Transmitted" /\ wire.acks < MaxRecords
        /\ wire' = [wire EXCEPT !.acks = @ + 1,
              !.transmission = Some([t EXCEPT !.status = "Acknowledged",
                                              !.acknowledged_at = Some(clock)])]

(* An acknowledged transmission may still fail.                              *)
fail_transmission ==
    \E t \in wire.transmission :
        wire' = [wire EXCEPT !.transmission = Some([t EXCEPT !.status = "Failed"])]
schedule_retransmission ==
    \E t \in wire.transmission :
        /\ t.status = "Failed"
        /\ wire' = [wire EXCEPT !.transmission = Some([t EXCEPT !.status = "Scheduled"])]
is_acknowledgment_overdue(t) ==
    t.acknowledged_at = None /\ clock - t.sent > AckTimeout

WireNext ==
    \/ \E framework \in RegulatoryFramework : register_endpoint(framework)
    \/ sync_endpoint \/ endpoint_error
    \/ \E source, destination \in Account : create_transmission(source, destination)
    \/ acknowledge_transmission \/ fail_transmission \/ schedule_retransmission

-----------------------------------------------------------------------------
SupTechTypeOK ==
    /\ \A who \in DOMAIN supervision.supervisors :
          supervision.supervisors[who].role \in SupervisorRole
    /\ \A k \in DOMAIN supervision.alerts : supervision.alerts[k].status \in AlertStatus
    /\ wire.acks \in 0..MaxRecords

(* Supervision (suptech_feeds.rs publish_data_point, is_data_fresh;          *)
(* suptech_rules.rs add_rule_to_set, execute_ruleset; suptech_api.rs         *)
(* should_deliver_alert; suptech_reporting.rs accept_report;                 *)
(* suptech_integration.rs acknowledge_transmission): points come from an     *)
(* active feed in order of time and no subscriber gets more of them than     *)
(* were published; a rule is in the set once, and alerts come from rules of  *)
(* it; a report is only accepted before any other result; a transmission is  *)
(* acknowledged at most once and never overdue after that.                   *)
SupervisionSound ==
    /\ \A j, k \in DOMAIN feeds.points : j <= k => feeds.points[j].time <= feeds.points[k].time
    /\ \A k \in DOMAIN feeds.points : feeds.points[k].active
    /\ \A who \in DOMAIN feeds.subscriptions : feeds.subscriptions[who].count <= Len(feeds.points)
    /\ \A feed \in feeds.feed :
          /\ is_data_fresh(feed) <=> get_feed_update_lag(feed) = 0
          /\ compute_data_quality_score(feed, 1) \in 15..100
    /\ IsInjective(supervision.ruleset)
    /\ ToSet(supervision.ruleset) \subseteq DOMAIN supervision.rules
    /\ \A k \in DOMAIN supervision.alerts :
          supervision.alerts[k].rule \in ToSet(supervision.ruleset)
    /\ \A d \in supervision.delivered : supervision.alerts[d[2]].severity >= d[3]
    /\ \A k \in DOMAIN filing.results : filing.results[k].status = "Accepted" => k = 1
    /\ filing.accepted <= filing.total /\ filing.rate \in 0..100
    /\ \A report \in filing.report :
          filing.accepted = 1 => report.size >= LeastData[report.standard]
    /\ wire.acks <= 1
    /\ \A t \in wire.transmission :
          /\ t.acknowledged_at # None <=> wire.acks = 1
          /\ t.status = "Acknowledged" => ~is_acknowledgment_overdue(t)
=============================================================================
