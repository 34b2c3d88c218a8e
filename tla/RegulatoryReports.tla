-------------------------- MODULE RegulatoryReports -------------------------
(* The life of one report to an authority: generated, validated, submitted,  *)
(* acknowledged (src/src/report_generators.rs, report_validation.rs,         *)
(* submission_tracker.rs), each stage recorded in a hash-linked trail        *)
(* (reporting_audit_trail.rs). The functions return values; the pipeline     *)
(* that calls them is the one of the repository's pipeline tests. Payloads   *)
(* are the set of keys they hold.                                            *)
EXTENDS PlatformHost

CONSTANTS
    MaxRetries,  \* attempts that the authority's configuration allows
    MaxTrail,    \* bound on the stages of a report's trail
    RetryDelay   \* base delay between attempts

VARIABLE reporting   \* report, submissions, acknowledgments and trail

RegulatoryAuthority == {"FINRA", "SEC", "CFTC", "FCA", "BaFin", "MAS", "MiCA"}
ReportStatus == {"Draft", "Validated", "Submitted", "Acknowledged", "Accepted",
                 "Rejected", "Cancelled", "Overdue"}
is_terminal(status) == status \in {"Accepted", "Cancelled", "Overdue"}

-----------------------------------------------------------------------------
(* The formats an authority has a generator for, with their schema version.  *)
FinraGenerators == "FinraOATS" :> 1 @@ "FinraCAT" :> 2 @@ "FinraRule4370" :> 1
SecGenerators   == "SecFormADV" :> 1 @@ "SecFormPF" :> 2 @@ "SecForm13F" :> 2
CftcGenerators  == "CftcLargeTrader" :> 1 @@ "CftcSwapData" :> 3
FcaGenerators   == "FcaMiFIDII" :> 2 @@ "FcaEMIR" :> 3
BaFinGenerators == "BaFinWpHG" :> 1 @@ "BaFinAnaCredit" :> 2
MasGenerators   == "MasTRR" :> 1 @@ "MasForm610" :> 2
MiCaGenerators  == "MiCACASP" :> 1 @@ "MiCAReserveAsset" :> 1 @@ "MiCAWhitePaper" :> 1

Generators ==
    "FINRA" :> FinraGenerators @@ "SEC" :> SecGenerators @@ "CFTC" :> CftcGenerators @@
    "FCA" :> FcaGenerators @@ "BaFin" :> BaFinGenerators @@ "MAS" :> MasGenerators @@
    "MiCA" :> MiCaGenerators

(* The formats an authority's validator knows, with the keys they require.   *)
validate_finra ==
    "FinraOATS" :> {"mpid", "order_count", "route_count"} @@
    "FinraCAT" :> {"mpid", "cat_reporter_id", "event_count"} @@
    "FinraRule4370" :> {"bcp_version", "emergency_contacts"} @@
    "FinraSAR" :> {"sar_type", "suspicious_activity_type", "amount"}
validate_sec ==
    "SecFormADV" :> {"adviser_name", "aum_usd", "client_count"} @@
    "SecFormPF" :> {"fund_count", "nav_usd", "strategy_type"} @@
    "SecForm13F" :> {"cusip_count", "total_value_usd", "confidential_treatment"} @@
    "SecFormNPORT" :> {"fund_name", "total_assets", "net_assets"} @@
    "SecSAR" :> {"sar_number", "filing_institution", "suspicious_amount"}
validate_cftc ==
    "CftcLargeTrader" :> {"commodity", "position_long", "position_short", "special_account"} @@
    "CftcSwapData" :> {"swap_type", "notional_usd", "counterparty_lei", "uti"} @@
    "CftcPart20" :> {"commodity_contract", "position_size", "account_controller"} @@
    "CftcForm40" :> {"trader_id", "position_commodity", "exchange_code"}
validate_fca ==
    "FcaMiFIDII" :> {"isin", "quantity", "price", "venue_mic", "executing_entity_id"} @@
    "FcaEMIR" :> {"trade_id", "asset_class", "notional_eur", "counterparty_lei"} @@
    "FcaSTOR" :> {"instrument_id", "suspicious_behaviour", "reporting_date"} @@
    "FcaCOREP" :> {"capital_ratio", "tier1_capital", "rwa_total"}
validate_bafin ==
    "BaFinWpHG" :> {"isin", "voting_rights_pct", "threshold_crossed", "direction"} @@
    "BaFinMeldepflicht" :> {"instrument_type", "notification_reason", "holding_pct"} @@
    "BaFinAnaCredit" :> {"loan_count", "total_exposure_eur", "credit_facility_type"} @@
    "BaFinAML" :> {"aml_report_type", "suspicious_amount_eur", "reporting_entity_lei"}
validate_mas ==
    "MasSGX" :> {"sgx_account_id", "security_code", "net_position"} @@
    "MasTRR" :> {"product_type", "notional_sgd", "counterparty_lei", "uti"} @@
    "MasForm610" :> {"balance_sheet_total_sgd", "loan_book_sgd", "npl_ratio"} @@
    "MasCMS" :> {"licence_number", "regulated_activity", "client_assets_sgd"}
validate_mica ==
    "MiCACASP" :> {"service_type", "user_count", "transaction_volume_eur",
                   "countries_served"} @@
    "MiCAWhitePaper" :> {"asset_name", "asset_class", "offer_type", "issuer_country"} @@
    "MiCAReserveAsset" :> {"token_symbol", "tokens_outstanding", "reserve_value_eur",
                           "reserve_composition", "custodian_lei"} @@
    "MiCASignificant" :> {"casp_id", "enhanced_obligations_reason", "supervisory_authority"}

RequiredKeys ==
    "FINRA" :> validate_finra @@ "SEC" :> validate_sec @@ "CFTC" :> validate_cftc @@
    "FCA" :> validate_fca @@ "BaFin" :> validate_bafin @@ "MAS" :> validate_mas @@
    "MiCA" :> validate_mica
ReportFormat == UNION {DOMAIN RequiredKeys[a] : a \in RegulatoryAuthority}
AuthorityOf(format) == CHOOSE a \in RegulatoryAuthority : format \in DOMAIN RequiredKeys[a]

-----------------------------------------------------------------------------
(* The search is for a substring, so a key ending in the wanted one does.    *)
contains_key(content, key) ==
    \/ key \in content
    \/ key = "amount" /\ "suspicious_amount" \in content
    \/ key = "commodity" /\ "position_commodity" \in content

(* Neither the entity nor the payload enters the identifier.                 *)
compute_report_id(authority, format, period) == <<authority, format, period>>
compute_report_hash(prev, content) == <<prev, content>>

(* A format without a generator gets a generic form that does not name the   *)
(* authority, under the authority of the configuration.                      *)
generate_report(format, input) ==
    LET owner == AuthorityOf(format)
        built == format \in DOMAIN Generators[owner]
        authority == IF built THEN owner ELSE input.config
        content == input.extra \cup {"form", "lei"} \cup (IF built THEN {owner} ELSE {})
    IN  [id |-> compute_report_id(authority, format, input.period),
         authority |-> authority, format |-> format, lei |-> input.lei,
         period |-> input.period, deadline |-> input.deadline, content |-> content,
         schema |-> IF built THEN Generators[owner][format] ELSE 1,
         status |-> "Draft", hash |-> compute_report_hash("genesis", content),
         updated_at |-> clock]

CommonChecks(report) ==
    /\ report.lei = "alphanumeric20"
    /\ report.period[1] < report.period[2]
    /\ report.deadline >= report.period[2]
    /\ report.content # {}

KeysPresent(report) ==
    report.format \in DOMAIN RequiredKeys[report.authority] =>
        \A key \in RequiredKeys[report.authority][report.format] :
            contains_key(report.content, key)

(* Faulty variant: the authority tag is not looked for.                      *)
ValidateUntagged(report) == CommonChecks(report) /\ KeysPresent(report)

(* A format of another authority only warns.                                 *)
validate_report(report) ==
    /\ CommonChecks(report)
    /\ contains_key(report.content, report.authority)
    /\ KeysPresent(report)

-----------------------------------------------------------------------------
check_transition(current, next) ==
    next \in CASE current = "Draft"        -> {"Validated", "Cancelled"}
               [] current = "Validated"    -> {"Submitted", "Cancelled"}
               [] current = "Submitted"    -> {"Acknowledged", "Rejected", "Cancelled", "Overdue"}
               [] current = "Acknowledged" -> {"Accepted", "Rejected", "Cancelled"}
               [] current = "Rejected"     -> {"Submitted", "Cancelled"}
               [] OTHER                    -> {}

WithStatus(report, status) == [report EXCEPT !.status = status, !.updated_at = clock]

compute_entry_hash(entry) == [k \in DOMAIN entry \ {"hash", "status"} |-> entry[k]]

(* The resulting status is stored beside what the hash covers.               *)
append_entry(trail, action, status, context) ==
    LET last == Len(trail)
        bare == [action |-> action, sequence |-> last, time |-> clock, context |-> context,
                 prev |-> IF last = 0 THEN "zero" ELSE trail[last].hash,
                 status |-> status]
    IN  Append(trail, bare @@ ("hash" :> compute_entry_hash(bare)))

verify_trail(trail) == \A i \in DOMAIN trail :
    /\ trail[i].prev = IF i = 1 THEN "zero" ELSE trail[i - 1].hash
    /\ trail[i].hash = compute_entry_hash(trail[i])

record_generated(trail) == append_entry(trail, "Generated", "Draft", "generated")
record_validated(trail, passed) ==
    append_entry(trail, "Validated", IF passed THEN "Validated" ELSE "Draft", passed)
record_submitted(trail, attempt) == append_entry(trail, "Submitted", "Submitted", attempt)
record_acknowledgment_received(trail) ==
    append_entry(trail, "AcknowledgmentReceived", "Acknowledged", "received")
record_accepted(trail) == append_entry(trail, "Accepted", "Accepted", "accepted")
record_rejected(trail) == append_entry(trail, "Rejected", "Rejected", "rejected")
record_cancelled(trail) == append_entry(trail, "Cancelled", "Cancelled", "cancelled")
record_overdue(trail) == append_entry(trail, "MarkedOverdue", "Overdue", "overdue")

-----------------------------------------------------------------------------
retry_after(attempt, exponential) ==
    IF attempt = 1 THEN 0
    ELSE clock + IF exponential THEN Min({RetryDelay * 2 ^ (attempt - 1), Day}) ELSE RetryDelay

compute_submission_id(report, attempt) == <<report.id, attempt>>

create_submission(report, attempt, exponential) ==
    [id |-> compute_submission_id(report, attempt), attempt |-> attempt,
     submitted_at |-> clock, status |-> "Submitted",
     retry_eligible |-> attempt < MaxRetries,
     retry_after |-> retry_after(attempt, exponential)]

next_attempt(submissions) ==
    IF submissions = <<>> THEN 1 ELSE Last(submissions).attempt + 1

is_overdue(report) == clock > report.deadline /\ ~is_terminal(report.status)

(* A complete input, and inputs that differ from it in one place.            *)
ReportInput(format) ==
    LET owner == AuthorityOf(format)
        keys == RequiredKeys[owner][format]
        full == [extra |-> keys, lei |-> "alphanumeric20", period |-> <<0, 1>>,
                 deadline |-> 2, config |-> owner]
    IN  {full, [full EXCEPT !.extra = keys \cup {owner}],
         [full EXCEPT !.extra = keys \ {CHOOSE k \in keys : TRUE}],
         [full EXCEPT !.lei = "malformed"], [full EXCEPT !.period = <<1, 1>>],
         [full EXCEPT !.deadline = 1], [full EXCEPT !.config = "SEC"]}

-----------------------------------------------------------------------------
ReportingInit ==
    reporting = [report |-> None, submissions |-> <<>>, acks |-> {}, trail |-> <<>>]

Filed == The(reporting.report)

Generate(format, input) ==
    reporting' = [reporting EXCEPT !.report = Some(generate_report(format, input)),
                                   !.trail = record_generated(@)]

mark_validated ==
    /\ check_transition(Filed.status, "Validated")
    /\ LET passed == validate_report(Filed)
       IN  reporting' = [reporting EXCEPT
              !.report = IF passed THEN Some(WithStatus(Filed, "Validated")) ELSE @,
              !.trail = record_validated(@, passed)]

(* The submission is created from the report as it is before it is marked.   *)
mark_submitted(exponential) ==
    LET attempt == next_attempt(reporting.submissions)
    IN  /\ Filed.status # "Draft"
        /\ clock <= Filed.deadline
        /\ attempt <= MaxRetries
        /\ check_transition(Filed.status, "Submitted")
        /\ reporting' = [reporting EXCEPT
              !.submissions = Append(@, create_submission(Filed, attempt, exponential)),
              !.report = Some(WithStatus(Filed, "Submitted")),
              !.trail = record_submitted(@, attempt)]

(* An answer names the submission it is for, which is not looked at again.   *)
ingest_acknowledgment(submission, accepted) ==
    [id |-> <<submission.id, clock>>, submission |-> submission.id, accepted |-> accepted]

apply_acknowledgment(submission, accepted) ==
    /\ submission.status \in {"Submitted", "Acknowledged"}
    /\ check_transition(Filed.status, "Acknowledged")
    /\ LET outcome == IF accepted THEN "Accepted" ELSE "Rejected"
           received == record_acknowledgment_received(reporting.trail)
       IN  reporting' = [reporting EXCEPT
              !.acks = @ \cup {ingest_acknowledgment(submission, accepted)},
              !.report = Some(WithStatus(Filed, outcome)),
              !.trail = IF accepted THEN record_accepted(received)
                        ELSE record_rejected(received)]

mark_overdue ==
    /\ is_overdue(Filed)
    /\ check_transition(Filed.status, "Overdue")
    /\ reporting' = [reporting EXCEPT !.report = Some(WithStatus(Filed, "Overdue")),
                                      !.trail = record_overdue(@)]

cancel_report ==
    /\ check_transition(Filed.status, "Cancelled")
    /\ reporting' = [reporting EXCEPT !.report = Some(WithStatus(Filed, "Cancelled")),
                                      !.trail = record_cancelled(@)]

(* One report is followed from its generation.                               *)
ReportingNext ==
    \/ /\ reporting.report = None
       /\ \E format \in ReportFormat : \E input \in ReportInput(format) : Generate(format, input)
    \/ /\ reporting.report # None /\ Len(reporting.trail) < MaxTrail
       /\ \/ mark_validated
          \/ \E exponential \in BOOLEAN : mark_submitted(exponential)
          \/ \E submission \in ToSet(reporting.submissions), accepted \in BOOLEAN :
                apply_acknowledgment(submission, accepted)
          \/ mark_overdue
          \/ cancel_report

-----------------------------------------------------------------------------
ReportingTypeOK ==
    \A report \in reporting.report :
        report.status \in ReportStatus /\ report.format \in ReportFormat

Attempts == [k \in DOMAIN reporting.submissions |-> reporting.submissions[k].attempt]

(* Reporting (submission_tracker.rs check_transition, create_submission,     *)
(* apply_acknowledgment; reporting_audit_trail.rs verify_trail;              *)
(* report_validation.rs): the trail verifies, ends with the status the       *)
(* report has and never continues past a terminal one; a report that left    *)
(* draft names its authority and has the keys that authority wants; one that *)
(* was sent has numbered attempts within the limit, none after the deadline; *)
(* and an accepted one has an acceptance of one of its own submissions.      *)
ReportsTraceable ==
    \A report \in reporting.report :
        /\ verify_trail(reporting.trail)
        /\ Last(reporting.trail).status = report.status
        /\ \A k \in 1..(Len(reporting.trail) - 1) : ~is_terminal(reporting.trail[k].status)
        /\ report.status \notin {"Draft", "Cancelled"} =>
              /\ report.authority \in report.content
              /\ report.authority = AuthorityOf(report.format) =>
                    RequiredKeys[report.authority][report.format] \subseteq report.content
        /\ report.status \in {"Submitted", "Accepted", "Rejected", "Overdue"} =>
              reporting.submissions # <<>>
        /\ \A k \in DOMAIN Attempts : Attempts[k] = k /\ k <= MaxRetries
        /\ \A k \in DOMAIN reporting.submissions :
              reporting.submissions[k].submitted_at <= report.deadline
        /\ report.status = "Accepted" =>
              \E ack \in reporting.acks, k \in DOMAIN reporting.submissions :
                  ack.accepted /\ ack.submission = reporting.submissions[k].id
=============================================================================
