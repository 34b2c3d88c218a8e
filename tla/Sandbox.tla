------------------------------- MODULE Sandbox ------------------------------
(* The regulatory sandbox (src/src/sandbox_types.rs): applications and       *)
(* participants (sandbox_mgmt.rs), an isolated instance with daily limits    *)
(* (sandbox_env.rs), inspections (sandbox_supervision.rs), scores            *)
(* (sandbox_innovation.rs) and graduation (sandbox_graduation.rs). Amounts   *)
(* are in units of ten thousand.                                             *)
EXTENDS PlatformHost

CONSTANTS
    MaxDays,       \* 365 in the configuration: longest stay after extensions
    MaxApplied,    \* 730 in the code: longest stay one may apply for
    MaxSandboxTx,  \* transactions of one instance
    MaxInspections \* inspections on record

ASSUME SandboxAssumption ==
    {MaxDays, MaxApplied, MaxSandboxTx, MaxInspections} \subseteq Nat

VARIABLES
    sandbox,       \* applications, participants and their statistics
    trial,         \* an instance
    graduation     \* assessment, inspections and innovation metrics

Level == 1..3   \* PoC, Beta, Production
max_transaction_amount == <<1, 10, 100>>
max_daily_volume == <<10, 100, 1000>>
required_compliance_checks == <<3, 5, 8>>
RelaxedRequirements ==
    <<[kyc |-> TRUE, aml |-> TRUE, limits |-> TRUE, partial |-> TRUE, reduction |-> 75],
      [kyc |-> TRUE, aml |-> TRUE, limits |-> FALSE, partial |-> TRUE, reduction |-> 40],
      [kyc |-> FALSE, aml |-> FALSE, limits |-> FALSE, partial |-> FALSE, reduction |-> 0]>>

ApplicationStatus ==
    {"Submitted", "AdditionalInfoRequested", "Approved", "Rejected"}

GraduationCriteria ==
    [default |-> [transactions |-> 1000, days |-> 90, compliance |-> 85, satisfaction |-> 75,
                  approval |-> TRUE, health |-> TRUE, tech |-> 80],
     aggressive |-> [transactions |-> 5000, days |-> 180, compliance |-> 95, satisfaction |-> 85,
                     approval |-> TRUE, health |-> TRUE, tech |-> 90],
     flexible |-> [transactions |-> 500, days |-> 30, compliance |-> 75, satisfaction |-> 60,
                   approval |-> TRUE, health |-> FALSE, tech |-> 70]]

SandboxInit ==
    sandbox = [applications |-> <<>>, participants |-> EmptyMap,
               total |-> 0, approved |-> 0, pending |-> 0]
TrialInit == trial = None
GraduationInit ==
    graduation = [assessment |-> None, records |-> <<>>,
                  metrics |-> [impact |-> 0, readiness |-> 0, maturity |-> 0, adoption |-> 0,
                               deployment_ready |-> FALSE]]

-----------------------------------------------------------------------------
(* Applications.                                                             *)
compute_application_id(applicant, name) == <<applicant, name, clock>>
compute_participant_id(applicant) == <<applicant, "PARTICIPANT">>

create_application(applicant, name, level, days) ==
    /\ Len(sandbox.applications) < MaxRecords
    /\ days \in 1..MaxApplied
    /\ sandbox' = [sandbox EXCEPT
          !.applications = Append(@, [id |-> compute_application_id(applicant, name),
              applicant |-> applicant, level |-> level, status |-> "Submitted",
              days |-> days, reviewed_at |-> None]),
          !.total = @ + 1, !.pending = @ + 1]

(* The number of participants is not looked at, and a second approval of the *)
(* same applicant replaces the participant.                                  *)
approve_application(k, supervisor) ==
    LET application == sandbox.applications[k]
    IN  /\ application.status = "Submitted"
        /\ sandbox' = [sandbox EXCEPT
              !.applications[k] = [application EXCEPT !.status = "Approved",
                                                      !.reviewed_at = Some(clock)],
              !.participants = Put(@, compute_participant_id(application.applicant),
                  [address |-> application.applicant, level |-> application.level,
                   entry |-> clock, exit |-> clock + application.days * Day,
                   days |-> application.days, active |-> TRUE, supervisor |-> supervisor]),
              !.approved = @ + 1, !.pending = Max({@ - 1, 0})]

(* A rejection leaves the statistics' pending count alone.                   *)
reject_application(k) ==
    LET application == sandbox.applications[k]
    IN  /\ application.status # "Approved"
        /\ sandbox' = [sandbox EXCEPT
              !.applications[k] = [application EXCEPT !.status = "Rejected",
                                                      !.reviewed_at = Some(clock)]]

request_additional_info(k) ==
    /\ sandbox.applications[k].status = "Submitted"
    /\ sandbox' = [sandbox EXCEPT !.applications[k].status = "AdditionalInfoRequested"]

extend_participation(id, days) ==
    LET p == sandbox.participants[id]
    IN  /\ days >= 1
        /\ ((p.exit - p.entry) \div Day) + days <= MaxDays
        /\ sandbox' = [sandbox EXCEPT !.participants[id].exit = @ + days * Day]

exit_sandbox(id) ==
    LET p == sandbox.participants[id]
    IN  /\ p.active
        /\ sandbox' = [sandbox EXCEPT
              !.participants[id] = [p EXCEPT !.active = FALSE, !.exit = clock]]

is_participant_active(p) == p.active /\ clock < p.exit
get_days_remaining(p) == IF clock >= p.exit THEN 0 ELSE (p.exit - clock) \div Day

-----------------------------------------------------------------------------
(* Instances.                                                                *)
create_sandbox_instance(who, level) ==
    /\ trial = None
    /\ trial' = Some(
          [participant |-> compute_participant_id(who), level |-> level,
           relaxed |-> RelaxedRequirements[level], used |-> 0,
           limit |-> max_daily_volume[level], count |-> 0, hash |-> "zero"])

(* Faulty variant: the volume before this transaction is compared.           *)
LimitsBefore(instance, amount) ==
    amount <= max_transaction_amount[instance.level] /\ instance.used <= instance.limit

check_transaction_limits(instance, amount) ==
    /\ amount <= max_transaction_amount[instance.level]
    /\ instance.used + amount <= instance.limit

update_state_hash(instance) ==
    [instance EXCEPT !.hash = <<instance.participant, instance.used, instance.count>>]

execute_sandbox_transaction(amount) ==
    \E instance \in trial :
        /\ instance.count < MaxSandboxTx
        /\ check_transaction_limits(instance, amount)
        /\ trial' = Some(update_state_hash([instance EXCEPT !.used = @ + amount, !.count = @ + 1]))

reset_daily_limits ==
    \E instance \in trial : instance.used # 0 /\ trial' = Some([instance EXCEPT !.used = 0])

compute_compliance_score(failed, total) ==
    IF total = 0 THEN 100 ELSE (Max({total - failed, 0}) * 100) \div total
detect_abuse(count, failed) == count > 0 /\ (failed * 100) \div count > 30

SandboxNext ==
    \/ \E a \in Account, level \in Level, days \in 0..(MaxApplied + 1) :
          create_application(a, "name", level, days)
    \/ \E k \in DOMAIN sandbox.applications :
          \/ approve_application(k, "supervisor")
          \/ reject_application(k)
          \/ request_additional_info(k)
    \/ \E id \in DOMAIN sandbox.participants :
          \/ \E days \in 0..MaxDays : extend_participation(id, days)
          \/ exit_sandbox(id)

TrialNext ==
    \/ \E who \in Account, level \in Level : create_sandbox_instance(who, level)
    \/ \E amount \in {1, 10} : execute_sandbox_transaction(amount)
    \/ reset_daily_limits

-----------------------------------------------------------------------------
(* Supervision, innovation and graduation.                                   *)
requires_intervention(risk) == risk \in {"High", "Critical"}
create_supervision_record(score, risk) ==
    /\ Len(graduation.records) < MaxInspections /\ score <= 100
    /\ graduation' = [graduation EXCEPT
          !.records = Append(@, [score |-> score, risk |-> risk, actions |-> FALSE])]
add_corrective_actions(k) ==
    ~graduation.records[k].actions /\ graduation' = [graduation EXCEPT !.records[k].actions = TRUE]
compute_compliance_trend ==
    IF graduation.records = <<>> THEN 0
    ELSE FoldLeft(LAMBDA sum, r : sum + r.score, 0, graduation.records)
            \div Len(graduation.records)

overall_innovation_score(m) == (m.impact + m.readiness + m.maturity + m.adoption) \div 4
is_ready_for_mainnet(m) == overall_innovation_score(m) >= 75 /\ m.deployment_ready
update_scores(scores) ==
    /\ \A k \in 1..4 : scores[k] <= 100
    /\ graduation' = [graduation EXCEPT
          !.metrics = [@ EXCEPT !.impact = scores[1], !.readiness = scores[2],
                                !.maturity = scores[3], !.adoption = scores[4]]]
set_deployment_ready(ready) ==
    graduation' = [graduation EXCEPT !.metrics.deployment_ready = ready]

create_assessment ==
    /\ graduation.assessment = None
    /\ graduation' = [graduation EXCEPT !.assessment =
          Some([transactions |-> 0, days |-> 0, compliance |-> 0, satisfaction |-> 0,
                approval |-> FALSE, health |-> FALSE, tech |-> 0,
                eligible |-> FALSE, decision |-> "Pending"])]

Meets(a, c) ==
    /\ a.transactions >= c.transactions /\ a.days >= c.days
    /\ a.compliance >= c.compliance /\ a.satisfaction >= c.satisfaction /\ a.tech >= c.tech
    /\ c.approval => a.approval
    /\ c.health => a.health

(* The assessor fills in the figures and evaluates them.                     *)
evaluate_eligibility(figures, criteria) ==
    \E a \in graduation.assessment :
        LET filled == [x \in DOMAIN a |-> GetOr(figures, x, a[x])]
        IN  graduation' = [graduation EXCEPT !.assessment =
               Some([filled EXCEPT !.eligible = Meets(filled, GraduationCriteria[criteria])])]

(* Each decision may follow any other.                                       *)
approve_graduation ==
    \E a \in graduation.assessment :
        /\ a.eligible
        /\ graduation' = [graduation EXCEPT !.assessment = Some([a EXCEPT !.decision = "Approved"])]
reject_graduation ==
    \E a \in graduation.assessment :
        graduation' = [graduation EXCEPT !.assessment = Some([a EXCEPT !.decision = "Rejected"])]
defer_graduation ==
    \E a \in graduation.assessment :
        graduation' = [graduation EXCEPT !.assessment = Some([a EXCEPT !.decision = "Deferred"])]

compute_readiness_percentage(a) ==
    Min({(a.compliance + a.satisfaction + a.tech) \div 3, 100})

get_recommendation(a) ==
    IF a.eligible THEN "Ready"
    ELSE IF a.compliance < 75 THEN "ImproveCompliance"
    ELSE IF a.days < 60 THEN "Extend"
    ELSE IF a.transactions < 500 THEN "MoreTransactions"
    ELSE "Defer"

Figures ==
    {[transactions |-> t, days |-> d, compliance |-> s, satisfaction |-> 85, tech |-> u,
      approval |-> ok, health |-> ok] :
        t \in {499, 5000}, d \in {29, 180}, s \in {74, 95}, u \in {69, 100},
        ok \in BOOLEAN}

GraduationNext ==
    \/ create_assessment
    \/ \E figures \in Figures, criteria \in DOMAIN GraduationCriteria :
          evaluate_eligibility(figures, criteria)
    \/ approve_graduation \/ reject_graduation \/ defer_graduation
    \/ \E score \in {50, 101}, risk \in {"Low", "Critical"} :
          create_supervision_record(score, risk)
    \/ \E k \in DOMAIN graduation.records : add_corrective_actions(k)
    \/ \E scores \in {<<75, 75, 75, 75>>, <<100, 100, 100, 0>>, <<101, 0, 0, 0>>} :
          update_scores(scores)
    \/ \E ready \in BOOLEAN : set_deployment_ready(ready)

-----------------------------------------------------------------------------
SandboxTypeOK ==
    /\ \A k \in DOMAIN sandbox.applications :
          sandbox.applications[k].status \in ApplicationStatus
    /\ \A id \in DOMAIN sandbox.participants : sandbox.participants[id].level \in Level

(* The sandbox (sandbox_env.rs check_transaction_limits, sandbox_mgmt.rs     *)
(* approve_application, extend_participation, record_approval;               *)
(* sandbox_graduation.rs evaluate_eligibility): an instance stays within the *)
(* volume of its participant's level; a participant has an approved          *)
(* application and, until it leaves, a stay no longer than it asked for or   *)
(* the maximum (exit_sandbox looks at no date: it may set a later one);      *)
(* approvals and open applications add up to no more than were made; an      *)
(* eligible assessment meets the weakest criteria.                           *)
SandboxContained ==
    /\ \A instance \in trial :
          instance.used <= max_daily_volume[instance.level] /\ instance.used <= instance.limit
    /\ \A id \in DOMAIN sandbox.participants :
          LET p == sandbox.participants[id]
          IN  /\ \E k \in DOMAIN sandbox.applications :
                    /\ sandbox.applications[k].applicant = p.address
                    /\ sandbox.applications[k].status = "Approved"
                    /\ sandbox.applications[k].reviewed_at = Some(p.entry)
              /\ p.active => p.exit - p.entry <= Max({p.days, MaxDays}) * Day
              /\ is_participant_active(p) => get_days_remaining(p) <= Max({p.days, MaxDays})
    /\ sandbox.approved + sandbox.pending <= sandbox.total
    /\ sandbox.approved = Cardinality({k \in DOMAIN sandbox.applications :
                                          sandbox.applications[k].status = "Approved"})
    /\ \A a \in graduation.assessment :
          a.eligible => /\ a.approval /\ a.days >= 30 /\ a.transactions >= 500
                        /\ a.compliance >= 75 /\ a.satisfaction >= 60 /\ a.tech >= 70
                        /\ get_recommendation(a) = "Ready"
=============================================================================
